---- MODULE Spec2Model ----
(***************************************************************************)
(* Model of malib's dynamic vector (src/src/vector.c, include/vector.h).   *)
(*                                                                         *)
(* A state of the library is a set of Vector structs (size, capacity,      *)
(* elements pointer) and a heap of element buffers.  Every C function is   *)
(* an operator from a library state and its arguments to the SET of        *)
(* outcomes the call can have (allocation may fail, the allocator picks    *)
(* the address); every action applies one function to the current state.   *)
(*                                                                         *)
(* double_t values are exact rationals <<num, den>>; the content of        *)
(* uninitialised storage is the token Indet, which a read resolves to any  *)
(* value.  size_t is SizeBits wide and every size_t expression of the      *)
(* source is reduced modulo 2^SizeBits.                                    *)
(***************************************************************************)
EXTENDS Integers, Sequences, FiniteSets, TLC

VARIABLES vec, heap, ub, oom, ret, out, op, reallocs

vars == <<vec, heap, ub, oom, ret, out, op, reallocs>>

---------------------------------------------------------------------------
(* Bounds of the model *)

SizeBits == 10     \* width of size_t in the model
MaxSmall == 1      \* requested sizes: 0..MaxSmall, MIN_CAPACITY, MIN_CAPACITY + 1
MaxIdx   == 1      \* indices passed to get/set: 0..MaxIdx
MaxVal   == 1      \* values passed to set: 1..MaxVal
MaxAddr  == 4      \* buffers the allocator can hand out at a time
NumVec   == 3      \* Vector handles of the program
MaxGrow  == 70     \* size up to which a growth run resizes one element at a time
MaxLen   == 5      \* length of the arrays passed to from_array: 0..MaxLen
MaxOver  == 2      \* factorial arguments: -1 .. MAX_FACTORIAL_INPUT + MaxOver

---------------------------------------------------------------------------
(* Program constants *)

VECTOR_MIN_CAPACITY  == 16
VECTOR_GROWTH_FACTOR == 2
SizeofDouble         == 8

VECTOR_SUCCESS           == 0
VECTOR_ERROR_NULL        == 1
VECTOR_ERROR_MEM         == 2
VECTOR_ERROR_INIT        == 3
VECTOR_ERROR_SIZE        == 4
VECTOR_ERROR_MATH        == 5
VECTOR_ERROR_INDEX       == 6

NULL == 0

SizeMod == 2 ^ SizeBits

Max(a, b) == IF a >= b THEN a ELSE b

\* size_t arithmetic
SzMul(a, b) == (a * b) % SizeMod

---------------------------------------------------------------------------
(* double_t values *)

Zero  == <<0, 1>>
Indet == <<0, 0>>
Rat(n) == <<n, 1>>

SetVals == { Rat(k) : k \in 1..MaxVal }

\* the values a read of slot content x can produce
ReadVal(x) == IF x = Indet THEN SetVals \cup {Zero} ELSE {x}

Fill(len, x) == [i \in 1..len |-> x]

\* double_t arithmetic, exact on the rationals the model uses; an operation
\* on unspecified content gives unspecified content
RECURSIVE Gcd(_, _)
Gcd(a, b) == IF b = 0 THEN a ELSE Gcd(b, a % b)

IntAbs(n) == IF n < 0 THEN -n ELSE n

Norm(n, d) ==
    LET g == Gcd(IntAbs(n), IntAbs(d))
    IN  IF d < 0 THEN <<-(n \div g), (-d) \div g>> ELSE <<n \div g, d \div g>>

RAdd(x, y) == IF x = Indet \/ y = Indet THEN Indet
              ELSE Norm(x[1] * y[2] + y[1] * x[2], x[2] * y[2])
RNeg(x)    == IF x = Indet THEN Indet ELSE <<-x[1], x[2]>>
RSub(x, y) == RAdd(x, RNeg(y))
RMul(x, y) == IF x = Indet \/ y = Indet THEN Indet
              ELSE Norm(x[1] * y[1], x[2] * y[2])
\* x / y; every division of the modelled code is guarded by y != 0.0
RDiv(x, y) == IF x = Indet \/ y = Indet \/ y[1] = 0 THEN Indet
              ELSE Norm(x[1] * y[2], x[2] * y[1])
RAbs(x)    == IF x = Indet THEN Indet ELSE <<IntAbs(x[1]), x[2]>>

\* the outcomes of the comparison x > y
RGreater(x, y) == IF x = Indet \/ y = Indet THEN BOOLEAN
                  ELSE { x[1] * y[2] > y[1] * x[2] }

\* the outcomes of the comparison x == 0.0
RIsZero(x) == IF x = Indet THEN BOOLEAN ELSE { x[1] = 0 }

---------------------------------------------------------------------------
(* The allocator *)

Addrs == 1..MaxAddr

FreeCell == [live |-> FALSE, data |-> <<>>]

FreeAddrs(h) == { a \in Addrs : ~h[a].live }

\* the address of a new buffer.  Addresses are only ever compared, so the
\* allocator is taken to hand out the lowest free one; no address is free
\* when MaxAddr buffers are live, and the allocation then fails
NewAddrs(h) == { a \in FreeAddrs(h) : \A b \in FreeAddrs(h) : a <= b }

\* malloc(bytes), bytes > 0: NULL, or a fresh buffer of unspecified content
Malloc(h, bytes) ==
    { [heap |-> h, ptr |-> NULL] } \cup
    { [heap |-> [h EXCEPT ![a] = [live |-> TRUE,
                                  data |-> Fill(bytes \div SizeofDouble, Indet)]],
       ptr |-> a] : a \in NewAddrs(h) }

\* calloc(n, sizeof(double_t)), n > 0: NULL (also when n * size overflows),
\* or a fresh zeroed buffer
Calloc(h, n) ==
    { [heap |-> h, ptr |-> NULL] } \cup
    IF n * SizeofDouble >= SizeMod THEN {}
    ELSE { [heap |-> [h EXCEPT ![a] = [live |-> TRUE, data |-> Fill(n, Zero)]],
            ptr |-> a] : a \in NewAddrs(h) }

Free(h, ptr) == IF ptr = NULL THEN h ELSE [h EXCEPT ![ptr] = FreeCell]

\* content of a buffer of old content d after it was resized to len elements
Resized(d, len) ==
    [i \in 1..len |-> IF i <= Len(d) THEN d[i] ELSE Indet]

\* realloc(ptr, bytes)
Realloc(h, ptr, bytes) ==
    IF ptr = NULL /\ bytes > 0 THEN Malloc(h, bytes)
    ELSE IF bytes = 0 THEN
        \* implementation-defined: the old buffer may or may not be released,
        \* and the result is NULL or a pointer to a zero-sized object
        { [heap |-> h, ptr |-> NULL], [heap |-> Free(h, ptr), ptr |-> NULL] } \cup
        { [heap |-> [Free(h, ptr) EXCEPT ![a] = [live |-> TRUE, data |-> <<>>]],
           ptr |-> a] : a \in NewAddrs(h) \cup ({ptr} \ {NULL}) }
    ELSE
        LET len == bytes \div SizeofDouble
            d   == h[ptr].data
        IN  { [heap |-> h, ptr |-> NULL] } \cup
            { [heap |-> [h EXCEPT ![ptr] = [live |-> TRUE, data |-> Resized(d, len)]],
               ptr |-> ptr] } \cup
            { [heap |-> [h EXCEPT ![ptr] = FreeCell,
                                  ![a] = [live |-> TRUE, data |-> Resized(d, len)]],
               ptr |-> a] : a \in NewAddrs(h) }

\* memset(base + off, 0, bytes) on the buffer at ptr: the part that lies
\* inside the buffer
MemsetZero(h, ptr, off, bytes) ==
    LET n == bytes \div SizeofDouble
    IN  IF ptr = NULL \/ n = 0 THEN h
        ELSE [h EXCEPT ![ptr].data =
                 [i \in 1..Len(h[ptr].data) |->
                     IF i > off /\ i <= off + n THEN Zero ELSE h[ptr].data[i]]]

\* memset(base + off, 0, bytes) writes outside the buffer at ptr
MemsetOverruns(h, ptr, off, bytes) ==
    /\ bytes \div SizeofDouble > 0
    /\ \/ ptr = NULL
       \/ off + bytes \div SizeofDouble > Len(h[ptr].data)

---------------------------------------------------------------------------
(* The library state and the Vector struct *)

\* the Vector handles of the client program
Handles == 1..NumVec

\* the local `temp` of vector_reflect
Temp == NumVec + 1

Vectors == Handles \cup {Temp}

NoVector == [alive |-> FALSE, elements |-> NULL, size |-> 0, capacity |-> 0]

\* the library state the functions work on: the Vector structs, the heap,
\* whether an access left its buffer (ub), whether an allocation of the call
\* failed (oom), and the double_t a call writes through its output pointer.
\* A call that takes a double_t* is handed the address of a fresh local,
\* whose content is unspecified
Cur == [vec |-> vec, heap |-> heap, ub |-> ub, oom |-> FALSE, out |-> Indet]

Outcome(S, r) == [st |-> S, ret |-> r]

\* the buffer of vector v
Elems(S, v) == S.heap[S.vec[v].elements].data

\* elements[i], i counted from 0, as stored
Slot(S, v, i) == Elems(S, v)[i + 1]

\* elements[i] lies inside the buffer of v
InBuffer(S, v, i) ==
    /\ S.vec[v].elements # NULL
    /\ S.heap[S.vec[v].elements].live
    /\ i < Len(Elems(S, v))

vector_valid(S, v) == v # NULL /\ S.vec[v].elements # NULL

\* calculate_new_capacity growing by one element past the minimum
calculate_new_capacity_PlusOne(current) ==
    IF current < VECTOR_MIN_CAPACITY THEN VECTOR_MIN_CAPACITY
    ELSE (current + 1) % SizeMod

\* calculate_new_capacity that grows to exactly the request past the minimum
calculate_new_capacity_Exact(current) ==
    IF current < VECTOR_MIN_CAPACITY THEN VECTOR_MIN_CAPACITY
    ELSE current

calculate_new_capacity(current) ==
    IF current < VECTOR_MIN_CAPACITY THEN VECTOR_MIN_CAPACITY
    ELSE SzMul(current, VECTOR_GROWTH_FACTOR)

---------------------------------------------------------------------------
(* Vector initialization *)

\* vector_create(size, &slot); slot = NULL is a null out_vector
vector_create(S, size, slot) ==
    IF slot = NULL THEN { Outcome(S, VECTOR_ERROR_NULL) }
    ELSE
        \* malloc(sizeof(Vector)) fails
        { Outcome([S EXCEPT !.oom = TRUE], VECTOR_ERROR_MEM) } \cup
        IF size = 0 THEN
            { Outcome([S EXCEPT !.vec[slot] =
                          [alive |-> TRUE, elements |-> NULL,
                           size |-> size, capacity |-> size]],
                      VECTOR_SUCCESS) }
        ELSE
            { IF a.ptr = NULL THEN Outcome([S EXCEPT !.oom = TRUE], VECTOR_ERROR_MEM)
              ELSE Outcome([S EXCEPT !.heap = a.heap,
                                     !.vec[slot] =
                                        [alive |-> TRUE, elements |-> a.ptr,
                                         size |-> size, capacity |-> size]],
                           VECTOR_SUCCESS)
              : a \in Calloc(S.heap, size) }

\* vector_init that releases the old buffer before it allocates the new one
vector_init_FreesFirst(S, v, size) ==
    IF v = NULL THEN { Outcome(S, VECTOR_ERROR_NULL) }
    ELSE
        LET F      == [S EXCEPT !.heap = Free(S.heap, S.vec[v].elements),
                                !.vec[v].elements = NULL]
            allocs == IF size > 0 THEN Calloc(F.heap, size)
                      ELSE { [heap |-> F.heap, ptr |-> NULL] }
        IN  { IF size > 0 /\ a.ptr = NULL
              THEN Outcome([F EXCEPT !.oom = TRUE], VECTOR_ERROR_MEM)
              ELSE Outcome([F EXCEPT !.heap = a.heap,
                                     !.vec[v].elements = a.ptr,
                                     !.vec[v].size = size,
                                     !.vec[v].capacity = size],
                           VECTOR_SUCCESS)
              : a \in allocs }

vector_init(S, v, size) ==
    IF v = NULL THEN { Outcome(S, VECTOR_ERROR_NULL) }
    ELSE
        LET allocs == IF size > 0 THEN Calloc(S.heap, size)
                      ELSE { [heap |-> S.heap, ptr |-> NULL] }
        IN  { IF size > 0 /\ a.ptr = NULL THEN Outcome([S EXCEPT !.oom = TRUE], VECTOR_ERROR_MEM)
              ELSE Outcome([S EXCEPT !.heap = Free(a.heap, S.vec[v].elements),
                                     !.vec[v].elements = a.ptr,
                                     !.vec[v].size = size,
                                     !.vec[v].capacity = size],
                           VECTOR_SUCCESS)
              : a \in allocs }

vector_free(S, v) ==
    IF v = NULL THEN { Outcome(S, VECTOR_ERROR_NULL) }
    ELSE { Outcome([S EXCEPT !.heap = Free(S.heap, S.vec[v].elements),
                             !.vec[v] = NoVector],
                   VECTOR_SUCCESS) }

---------------------------------------------------------------------------
(* Memory management *)

\* vector_resize without the reallocation: the size is taken as requested
vector_resize_NoGrow(S, v, size) ==
    IF v = NULL THEN { Outcome(S, VECTOR_ERROR_NULL) }
    ELSE { Outcome([S EXCEPT !.vec[v].size = size], VECTOR_SUCCESS) }

\* vector_resize that records the new size as the capacity when it fits
vector_resize_ShrinksCapacity(S, v, size) ==
    IF v = NULL THEN { Outcome(S, VECTOR_ERROR_NULL) }
    ELSE IF size <= S.vec[v].capacity THEN
        { Outcome([S EXCEPT !.vec[v].size = size,
                            !.vec[v].capacity = size],
                  VECTOR_SUCCESS) }
    ELSE
        LET new_capacity == calculate_new_capacity(size)
            old_size     == S.vec[v].size
            zeroed       == SzMul(size - old_size, SizeofDouble)
        IN  { IF a.ptr = NULL
              THEN Outcome([S EXCEPT !.heap = a.heap, !.oom = TRUE], VECTOR_ERROR_MEM)
              ELSE Outcome([S EXCEPT
                              !.heap = MemsetZero(a.heap, a.ptr, old_size, zeroed),
                              !.vec[v].elements = a.ptr,
                              !.vec[v].size = size,
                              !.vec[v].capacity = new_capacity],
                           VECTOR_SUCCESS)
              : a \in Realloc(S.heap, S.vec[v].elements,
                              SzMul(new_capacity, SizeofDouble)) }

\* vector_resize that leaves the added region as realloc returned it
vector_resize_NoZeroFill(S, v, size) ==
    IF v = NULL THEN { Outcome(S, VECTOR_ERROR_NULL) }
    ELSE IF size <= S.vec[v].capacity THEN
        { Outcome([S EXCEPT !.vec[v].size = size], VECTOR_SUCCESS) }
    ELSE
        LET new_capacity == calculate_new_capacity(size)
        IN  { IF a.ptr = NULL THEN Outcome([S EXCEPT !.heap = a.heap, !.oom = TRUE], VECTOR_ERROR_MEM)
              ELSE Outcome([S EXCEPT !.heap = a.heap,
                                     !.vec[v].elements = a.ptr,
                                     !.vec[v].size = size,
                                     !.vec[v].capacity = new_capacity],
                           VECTOR_SUCCESS)
              : a \in Realloc(S.heap, S.vec[v].elements,
                              SzMul(new_capacity, SizeofDouble)) }

vector_resize(S, v, size) ==
    IF v = NULL THEN { Outcome(S, VECTOR_ERROR_NULL) }
    ELSE IF size <= S.vec[v].capacity THEN
        { Outcome([S EXCEPT !.vec[v].size = size], VECTOR_SUCCESS) }
    ELSE
        LET new_capacity == calculate_new_capacity(size)
            old_size     == S.vec[v].size
            zeroed       == IF size > old_size
                            THEN SzMul(size - old_size, SizeofDouble) ELSE 0
        IN  { IF a.ptr = NULL THEN Outcome([S EXCEPT !.heap = a.heap, !.oom = TRUE], VECTOR_ERROR_MEM)
              ELSE Outcome([S EXCEPT
                              !.heap = MemsetZero(a.heap, a.ptr, old_size, zeroed),
                              !.ub = S.ub \/ MemsetOverruns(a.heap, a.ptr, old_size, zeroed),
                              !.vec[v].elements = a.ptr,
                              !.vec[v].size = size,
                              !.vec[v].capacity = new_capacity],
                           VECTOR_SUCCESS)
              : a \in Realloc(S.heap, S.vec[v].elements,
                              SzMul(new_capacity, SizeofDouble)) }

vector_resize_zero(S, v, size) ==
    IF v = NULL THEN { Outcome(S, VECTOR_ERROR_NULL) }
    ELSE
        { IF r.ret # VECTOR_SUCCESS THEN r
          ELSE LET T     == r.st
                   bytes == SzMul(size, SizeofDouble)
               IN  Outcome([T EXCEPT
                              !.heap = MemsetZero(T.heap, T.vec[v].elements, 0, bytes),
                              !.ub = T.ub \/ MemsetOverruns(T.heap, T.vec[v].elements,
                                                            0, bytes)],
                           VECTOR_SUCCESS)
          : r \in vector_resize(S, v, size) }

\* vector_reserve that takes the reserved capacity for the size
vector_reserve_SetsSize(S, v, capacity) ==
    IF v = NULL THEN { Outcome(S, VECTOR_ERROR_NULL) }
    ELSE IF capacity <= S.vec[v].capacity THEN { Outcome(S, VECTOR_SUCCESS) }
    ELSE
        { IF a.ptr = NULL THEN Outcome([S EXCEPT !.heap = a.heap, !.oom = TRUE], VECTOR_ERROR_MEM)
          ELSE Outcome([S EXCEPT !.heap = a.heap,
                                 !.vec[v].elements = a.ptr,
                                 !.vec[v].size = capacity,
                                 !.vec[v].capacity = capacity],
                       VECTOR_SUCCESS)
          : a \in Realloc(S.heap, S.vec[v].elements, SzMul(capacity, SizeofDouble)) }

vector_reserve(S, v, capacity) ==
    IF v = NULL THEN { Outcome(S, VECTOR_ERROR_NULL) }
    ELSE IF capacity <= S.vec[v].capacity THEN { Outcome(S, VECTOR_SUCCESS) }
    ELSE
        { IF a.ptr = NULL THEN Outcome([S EXCEPT !.heap = a.heap, !.oom = TRUE], VECTOR_ERROR_MEM)
          ELSE Outcome([S EXCEPT !.heap = a.heap,
                                 !.vec[v].elements = a.ptr,
                                 !.vec[v].capacity = capacity],
                       VECTOR_SUCCESS)
          : a \in Realloc(S.heap, S.vec[v].elements, SzMul(capacity, SizeofDouble)) }

vector_shrink_to_fit(S, v) ==
    IF v = NULL THEN { Outcome(S, VECTOR_ERROR_NULL) }
    ELSE IF S.vec[v].elements = NULL THEN { Outcome(S, VECTOR_ERROR_INIT) }
    ELSE IF S.vec[v].size = 0 THEN
        { Outcome([S EXCEPT !.heap = Free(S.heap, S.vec[v].elements),
                            !.vec[v].elements = NULL,
                            !.vec[v].capacity = 0],
                  VECTOR_SUCCESS) }
    ELSE IF S.vec[v].size = S.vec[v].capacity THEN { Outcome(S, VECTOR_SUCCESS) }
    ELSE
        { IF a.ptr = NULL THEN Outcome([S EXCEPT !.heap = a.heap, !.oom = TRUE], VECTOR_ERROR_MEM)
          ELSE Outcome([S EXCEPT !.heap = a.heap,
                                 !.vec[v].elements = a.ptr,
                                 !.vec[v].capacity = S.vec[v].size],
                       VECTOR_SUCCESS)
          : a \in Realloc(S.heap, S.vec[v].elements,
                          SzMul(S.vec[v].size, SizeofDouble)) }

---------------------------------------------------------------------------
(* Element access *)

\* vector_get with the index checked against the capacity
vector_get_BoundsByCapacity(S, v, index, hasOut) ==
    IF v = NULL \/ ~hasOut THEN { Outcome(S, VECTOR_ERROR_NULL) }
    ELSE IF ~vector_valid(S, v) THEN { Outcome(S, VECTOR_ERROR_INIT) }
    ELSE IF index >= S.vec[v].capacity THEN { Outcome(S, VECTOR_ERROR_INDEX) }
    ELSE { Outcome([S EXCEPT !.out = x], VECTOR_SUCCESS)
           : x \in ReadVal(Slot(S, v, index)) }

\* vector_get(v, index, &out); hasOut = FALSE is a null out_val
vector_get(S, v, index, hasOut) ==
    IF v = NULL \/ ~hasOut THEN { Outcome(S, VECTOR_ERROR_NULL) }
    ELSE IF ~vector_valid(S, v) THEN { Outcome(S, VECTOR_ERROR_INIT) }
    ELSE IF index >= S.vec[v].size THEN { Outcome(S, VECTOR_ERROR_INDEX) }
    ELSE IF ~InBuffer(S, v, index) THEN
        \* read outside the buffer: any value
        { Outcome([S EXCEPT !.out = x, !.ub = TRUE], VECTOR_SUCCESS)
          : x \in ReadVal(Indet) }
    ELSE
        { Outcome([S EXCEPT !.out = x], VECTOR_SUCCESS)
          : x \in ReadVal(Slot(S, v, index)) }

vector_set(S, v, index, val) ==
    IF v = NULL THEN { Outcome(S, VECTOR_ERROR_NULL) }
    ELSE IF ~vector_valid(S, v) THEN { Outcome(S, VECTOR_ERROR_INIT) }
    ELSE IF index >= S.vec[v].size THEN { Outcome(S, VECTOR_ERROR_INDEX) }
    ELSE IF ~InBuffer(S, v, index) THEN
        { Outcome([S EXCEPT !.ub = TRUE], VECTOR_SUCCESS) }
    ELSE
        { Outcome([S EXCEPT !.heap[S.vec[v].elements].data[index + 1] = val],
                  VECTOR_SUCCESS) }

vector_zero(S, v) ==
    IF v = NULL THEN { Outcome(S, VECTOR_ERROR_NULL) }
    ELSE IF S.vec[v].elements = NULL THEN { Outcome(S, VECTOR_ERROR_INIT) }
    ELSE
        LET bytes == SzMul(S.vec[v].size, SizeofDouble)
        IN  { Outcome([S EXCEPT
                         !.heap = MemsetZero(S.heap, S.vec[v].elements, 0, bytes),
                         !.ub = S.ub \/ MemsetOverruns(S.heap, S.vec[v].elements, 0, bytes)],
                      VECTOR_SUCCESS) }

\* vector_create_zero(size, &slot)
vector_create_zero(S, size, slot) ==
    UNION { IF c.ret # VECTOR_SUCCESS THEN { c }
            ELSE vector_zero(c.st, slot)
            : c \in vector_create(S, size, slot) }

---------------------------------------------------------------------------
(* Copy and comparison *)

\* ptr[i], i counted from 0, as stored; unspecified outside the buffer
Load(h, ptr, i) ==
    IF ptr # NULL /\ h[ptr].live /\ i < Len(h[ptr].data) THEN h[ptr].data[i + 1]
    ELSE Indet

\* ptr[i] = x; the heap is left alone when ptr[i] is outside the buffer
Store(h, ptr, i, x) ==
    IF ptr # NULL /\ h[ptr].live /\ i < Len(h[ptr].data)
    THEN [h EXCEPT ![ptr].data[i + 1] = x]
    ELSE h

\* a loop over ptr[0 .. n-1] leaves the buffer
Overruns(h, ptr, n) ==
    n > 0 /\ (ptr = NULL \/ ~h[ptr].live \/ n > Len(h[ptr].data))

\* memcpy(dst, src, bytes)
Memcpy(h, dst, src, bytes) ==
    LET n == bytes \div SizeofDouble
    IN  IF n = 0 \/ dst = NULL \/ dst = src THEN h
        ELSE [h EXCEPT ![dst].data =
                 [i \in 1..Len(h[dst].data) |->
                     IF i <= n THEN Load(h, src, i - 1) ELSE h[dst].data[i]]]

vector_copy(S, src, dest) ==
    IF src = NULL \/ dest = NULL THEN { Outcome(S, VECTOR_ERROR_NULL) }
    ELSE IF ~vector_valid(S, src) THEN { Outcome(S, VECTOR_ERROR_INIT) }
    ELSE
        { IF r.ret # VECTOR_SUCCESS THEN r
          ELSE LET T     == r.st
                   bytes == SzMul(T.vec[src].size, SizeofDouble)
                   n     == bytes \div SizeofDouble
               IN  Outcome([T EXCEPT
                              !.heap = Memcpy(T.heap, T.vec[dest].elements,
                                              T.vec[src].elements, bytes),
                              !.ub = \/ T.ub
                                     \/ Overruns(T.heap, T.vec[dest].elements, n)
                                     \/ Overruns(T.heap, T.vec[src].elements, n)
                                     \/ (n > 0 /\ T.vec[dest].elements
                                                    = T.vec[src].elements)],
                           VECTOR_SUCCESS)
          : r \in vector_init(S, dest, S.vec[src].size) }

\* memcpy(dst, arr, bytes) from an array of the client; what lies past the
\* end of arr is unspecified
MemcpyArray(h, dst, arr, bytes) ==
    LET n == bytes \div SizeofDouble
    IN  IF n = 0 \/ dst = NULL THEN h
        ELSE [h EXCEPT ![dst].data =
                 [i \in 1..Len(h[dst].data) |->
                     IF i > n THEN h[dst].data[i]
                     ELSE IF i <= Len(arr) THEN arr[i] ELSE Indet]]

\* vector_from_array(arr, size, &slot); hasArr: arr is not a null pointer
vector_from_array(S, arr, hasArr, size, slot) ==
    IF ~hasArr \/ slot = NULL THEN { Outcome(S, VECTOR_ERROR_NULL) }
    ELSE
        { IF c.ret # VECTOR_SUCCESS THEN c
          ELSE LET bytes == SzMul(size, SizeofDouble)
                   n     == bytes \div SizeofDouble
               IN  Outcome([c.st EXCEPT
                              !.heap = MemcpyArray(c.st.heap, c.st.vec[slot].elements,
                                                   arr, bytes),
                              !.ub = \/ c.st.ub
                                     \/ Overruns(c.st.heap, c.st.vec[slot].elements, n)
                                     \/ n > Len(arr)],
                           VECTOR_SUCCESS)
          : c \in vector_create(S, size, slot) }

\* some index i < size has fabs(a[i] - b[i]) > tolerance (the outcomes)
SomeDiffers(S, a, b, tolerance) ==
    LET hits == { i \in 0..(S.vec[a].size - 1) :
                    TRUE \in RGreater(RAbs(RSub(Load(S.heap, S.vec[a].elements, i),
                                                Load(S.heap, S.vec[b].elements, i))),
                                      tolerance) }
    IN  hits # {}

vector_equals(S, a, b, tolerance) ==
    IF a = NULL \/ b = NULL THEN { Outcome(S, VECTOR_ERROR_NULL) }
    ELSE IF ~vector_valid(S, a) \/ ~vector_valid(S, b) THEN
        { Outcome(S, VECTOR_ERROR_INIT) }
    ELSE IF S.vec[a].size # S.vec[b].size THEN { Outcome(S, VECTOR_ERROR_SIZE) }
    ELSE IF SomeDiffers(S, a, b, tolerance) THEN { Outcome(S, VECTOR_SUCCESS) }
    ELSE { Outcome(S, VECTOR_SUCCESS) }

\* some index i < size has fabs(data[i]) > tolerance
SomeExceeds(S, v, tolerance) ==
    \E i \in 0..(S.vec[v].size - 1) :
        TRUE \in RGreater(RAbs(Load(S.heap, S.vec[v].elements, i)), tolerance)

vector_is_zero(S, v, tolerance) ==
    IF v = NULL THEN { Outcome(S, VECTOR_ERROR_NULL) }
    ELSE IF ~vector_valid(S, v) THEN { Outcome(S, VECTOR_ERROR_INIT) }
    ELSE IF SomeExceeds(S, v, tolerance) THEN { Outcome(S, VECTOR_SUCCESS) }
    ELSE { Outcome(S, VECTOR_SUCCESS) }

---------------------------------------------------------------------------
(* Dot product, projection and reflection *)

\* one step of the compensated summation: y = term - c; t = sum + y;
\* c = (t - sum) - y; sum = t
KahanAdd(acc, term) ==
    LET y == RSub(term, acc.c)
        t == RAdd(acc.sum, y)
    IN  [sum |-> t, c |-> RSub(RSub(t, acc.sum), y)]

Prod(h, ap, bp, i) == RMul(Load(h, ap, i), Load(h, bp, i))

\* for (; i < size; i++)
RECURSIVE DotRemainder(_, _, _, _, _, _)
DotRemainder(h, ap, bp, size, i, acc) ==
    IF i < size
    THEN DotRemainder(h, ap, bp, size, i + 1, KahanAdd(acc, Prod(h, ap, bp, i)))
    ELSE acc

\* for (; i + 3 < size; i += 4), followed by the remainder loop
RECURSIVE DotUnrolled(_, _, _, _, _, _)
DotUnrolled(h, ap, bp, size, i, acc) ==
    IF i + 3 < size
    THEN DotUnrolled(h, ap, bp, size, i + 4,
             KahanAdd(KahanAdd(KahanAdd(KahanAdd(acc,
                 Prod(h, ap, bp, i)), Prod(h, ap, bp, i + 1)),
                 Prod(h, ap, bp, i + 2)), Prod(h, ap, bp, i + 3)))
    ELSE DotRemainder(h, ap, bp, size, i, acc)

\* vector_dot(a, b, &val): the return code and the value written (Indet when
\* nothing is written)
vector_dot(S, a, b) ==
    IF a = NULL \/ b = NULL THEN [ret |-> VECTOR_ERROR_NULL, val |-> Indet]
    ELSE IF ~vector_valid(S, a) \/ ~vector_valid(S, b) THEN
        [ret |-> VECTOR_ERROR_INIT, val |-> Indet]
    ELSE IF S.vec[a].size # S.vec[b].size THEN
        [ret |-> VECTOR_ERROR_SIZE, val |-> Indet]
    ELSE [ret |-> VECTOR_SUCCESS,
          val |-> DotUnrolled(S.heap, S.vec[a].elements, S.vec[b].elements,
                              S.vec[a].size, 0, [sum |-> Zero, c |-> Zero]).sum]

\* for (i = 0; i < n; i++) r_data[i] = scale * b_data[i]
RECURSIVE ScaleLoop(_, _, _, _, _, _)
ScaleLoop(h, rp, bp, scale, i, n) ==
    IF i < n
    THEN ScaleLoop(Store(h, rp, i, RMul(scale, Load(h, bp, i))), rp, bp, scale, i + 1, n)
    ELSE h

vector_project(S, a, b, result) ==
    IF a = NULL \/ b = NULL \/ result = NULL THEN { Outcome(S, VECTOR_ERROR_NULL) }
    ELSE IF ~vector_valid(S, a) \/ ~vector_valid(S, b) \/ ~vector_valid(S, result) THEN
        { Outcome(S, VECTOR_ERROR_INIT) }
    ELSE IF S.vec[a].size # S.vec[b].size \/ S.vec[a].size # S.vec[result].size THEN
        { Outcome(S, VECTOR_ERROR_SIZE) }
    ELSE
        LET dot_aa == vector_dot(S, b, b)
            dot_ab == vector_dot(S, a, b)
            n      == S.vec[a].size
            rp     == S.vec[result].elements
            bp     == S.vec[b].elements
        IN  IF dot_aa.ret # VECTOR_SUCCESS THEN { Outcome(S, dot_aa.ret) }
            ELSE IF dot_ab.ret # VECTOR_SUCCESS THEN { Outcome(S, dot_ab.ret) }
            ELSE { IF isZero THEN Outcome(S, VECTOR_ERROR_MATH)
                   ELSE Outcome([S EXCEPT
                                   !.heap = ScaleLoop(S.heap, rp, bp,
                                                RDiv(dot_ab.val, dot_aa.val), 0, n),
                                   !.ub = S.ub \/ Overruns(S.heap, rp, n)
                                               \/ Overruns(S.heap, bp, n)],
                                VECTOR_SUCCESS)
                   : isZero \in RIsZero(dot_aa.val) }

\* for (i = 0; i < n; i++) r_data[i] = a_data[i] - 2.0 * t_data[i]
RECURSIVE ReflectLoop(_, _, _, _, _, _)
ReflectLoop(h, rp, ap, tp, i, n) ==
    IF i < n
    THEN ReflectLoop(Store(h, rp, i, RSub(Load(h, ap, i), RMul(Rat(2), Load(h, tp, i)))),
                     rp, ap, tp, i + 1, n)
    ELSE h

\* the state after vector_free(v), which cannot fail for a non-null v
Freed(S, v) == (CHOOSE r \in vector_free(S, v) : TRUE).st

\* vector_reflect without its scratch vector: the projection is written to
\* result, and the loop reads it back from there
vector_reflect_NoScratch(S, a, b, result) ==
    IF a = NULL \/ b = NULL \/ result = NULL THEN { Outcome(S, VECTOR_ERROR_NULL) }
    ELSE IF ~vector_valid(S, a) \/ ~vector_valid(S, b) \/ ~vector_valid(S, result) THEN
        { Outcome(S, VECTOR_ERROR_INIT) }
    ELSE IF S.vec[a].size # S.vec[b].size \/ S.vec[a].size # S.vec[result].size THEN
        { Outcome(S, VECTOR_ERROR_SIZE) }
    ELSE
        { IF p.ret # VECTOR_SUCCESS THEN p
          ELSE LET T  == p.st
                   rp == T.vec[result].elements
               IN  Outcome([T EXCEPT
                              !.heap = ReflectLoop(T.heap, rp, T.vec[a].elements, rp,
                                                   0, T.vec[a].size)],
                           VECTOR_SUCCESS)
          : p \in vector_project(S, a, b, result) }

vector_reflect(S, a, b, result) ==
    IF a = NULL \/ b = NULL \/ result = NULL THEN { Outcome(S, VECTOR_ERROR_NULL) }
    ELSE IF ~vector_valid(S, a) \/ ~vector_valid(S, b) \/ ~vector_valid(S, result) THEN
        { Outcome(S, VECTOR_ERROR_INIT) }
    ELSE IF S.vec[a].size # S.vec[b].size \/ S.vec[a].size # S.vec[result].size THEN
        { Outcome(S, VECTOR_ERROR_SIZE) }
    ELSE
        UNION {
          IF c.ret # VECTOR_SUCCESS THEN { c }
          ELSE { IF p.ret # VECTOR_SUCCESS THEN Outcome(Freed(p.st, Temp), p.ret)
                 ELSE LET T  == p.st
                          n  == T.vec[a].size
                          rp == T.vec[result].elements
                          ap == T.vec[a].elements
                          tp == T.vec[Temp].elements
                          U  == [T EXCEPT
                                   !.heap = ReflectLoop(T.heap, rp, ap, tp, 0, n),
                                   !.ub = T.ub \/ Overruns(T.heap, rp, n)
                                               \/ Overruns(T.heap, ap, n)
                                               \/ Overruns(T.heap, tp, n)]
                      IN  Outcome(Freed(U, Temp), VECTOR_SUCCESS)
                 : p \in vector_project(c.st, a, b, Temp) }
          : c \in vector_create(S, S.vec[a].size, Temp) }

\* the largest integer whose square is at most n
ISqrt(n) == CHOOSE r \in 0..n : r * r <= n /\ (r + 1) * (r + 1) > n

\* sqrt rounds: the model gives the exact root of a square of a rational,
\* and otherwise the root rounded down to a multiple of 1 / (den * SqrtGrid)
SqrtGrid == 8

RSqrt(x) ==
    IF x = Indet \/ x[1] < 0 THEN Indet
    ELSE IF ISqrt(x[1]) * ISqrt(x[1]) = x[1] /\ ISqrt(x[2]) * ISqrt(x[2]) = x[2]
         THEN Norm(ISqrt(x[1]), ISqrt(x[2]))
    ELSE Norm(ISqrt(x[1] * x[2] * SqrtGrid * SqrtGrid), x[2] * SqrtGrid)

\* vector_magnitude(v, &val): the return code and the value written (Indet
\* when nothing is written)
vector_magnitude(S, v) ==
    IF v = NULL THEN [ret |-> VECTOR_ERROR_NULL, val |-> Indet]
    ELSE IF ~vector_valid(S, v) THEN [ret |-> VECTOR_ERROR_INIT, val |-> Indet]
    ELSE LET dot == vector_dot(S, v, v)
         IN  IF dot.ret # VECTOR_SUCCESS THEN [ret |-> dot.ret, val |-> Indet]
             ELSE [ret |-> VECTOR_SUCCESS, val |-> RSqrt(dot.val)]

\* for (; i < size; i++) data[i] *= scale
RECURSIVE NormalizeRemainder(_, _, _, _, _)
NormalizeRemainder(h, p, scale, i, size) ==
    IF i < size
    THEN NormalizeRemainder(Store(h, p, i, RMul(Load(h, p, i), scale)), p, scale, i + 1, size)
    ELSE h

\* for (; i + 3 < size; i += 4), followed by the remainder loop
RECURSIVE NormalizeUnrolled(_, _, _, _, _)
NormalizeUnrolled(h, p, scale, i, size) ==
    IF i + 3 < size
    THEN LET h1 == Store(h, p, i, RMul(Load(h, p, i), scale))
             h2 == Store(h1, p, i + 1, RMul(Load(h1, p, i + 1), scale))
             h3 == Store(h2, p, i + 2, RMul(Load(h2, p, i + 2), scale))
             h4 == Store(h3, p, i + 3, RMul(Load(h3, p, i + 3), scale))
         IN  NormalizeUnrolled(h4, p, scale, i + 4, size)
    ELSE NormalizeRemainder(h, p, scale, i, size)

vector_normalize(S, v) ==
    IF v = NULL THEN { Outcome(S, VECTOR_ERROR_NULL) }
    ELSE IF ~vector_valid(S, v) THEN { Outcome(S, VECTOR_ERROR_INIT) }
    ELSE
        LET mag == vector_magnitude(S, v)
            p   == S.vec[v].elements
        IN  IF mag.ret # VECTOR_SUCCESS THEN { Outcome(S, mag.ret) }
            ELSE { IF isZero THEN Outcome(S, VECTOR_ERROR_MATH)
                   ELSE Outcome([S EXCEPT
                                   !.heap = NormalizeUnrolled(S.heap, p,
                                                RDiv(Rat(1), mag.val), 0, S.vec[v].size),
                                   !.ub = S.ub \/ Overruns(S.heap, p, S.vec[v].size)],
                                VECTOR_SUCCESS)
                   : isZero \in RIsZero(mag.val) }

\* for (i = 0; i < n; i++) r_data[i] = a_data[i] - r_data[i]
RECURSIVE RejectLoop(_, _, _, _, _)
RejectLoop(h, rp, ap, i, n) ==
    IF i < n
    THEN RejectLoop(Store(h, rp, i, RSub(Load(h, ap, i), Load(h, rp, i))), rp, ap, i + 1, n)
    ELSE h

vector_reject(S, a, b, result) ==
    IF a = NULL \/ b = NULL \/ result = NULL THEN { Outcome(S, VECTOR_ERROR_NULL) }
    ELSE IF ~vector_valid(S, a) \/ ~vector_valid(S, b) \/ ~vector_valid(S, result) THEN
        { Outcome(S, VECTOR_ERROR_INIT) }
    ELSE IF S.vec[a].size # S.vec[b].size \/ S.vec[a].size # S.vec[result].size THEN
        { Outcome(S, VECTOR_ERROR_SIZE) }
    ELSE
        { IF p.ret # VECTOR_SUCCESS THEN p
          ELSE LET T  == p.st
                   n  == T.vec[a].size
                   rp == T.vec[result].elements
                   ap == T.vec[a].elements
               IN  Outcome([T EXCEPT
                              !.heap = RejectLoop(T.heap, rp, ap, 0, n),
                              !.ub = T.ub \/ Overruns(T.heap, rp, n)
                                          \/ Overruns(T.heap, ap, n)],
                           VECTOR_SUCCESS)
          : p \in vector_project(S, a, b, result) }

\* r_data[i] = omt * a_data[i] + t * b_data[i]
LerpStore(h, rp, ap, bp, omt, t, i) ==
    Store(h, rp, i, RAdd(RMul(omt, Load(h, ap, i)), RMul(t, Load(h, bp, i))))

\* for (; i < size; i++)
RECURSIVE LerpRemainder(_, _, _, _, _, _, _, _)
LerpRemainder(h, rp, ap, bp, omt, t, i, size) ==
    IF i < size
    THEN LerpRemainder(LerpStore(h, rp, ap, bp, omt, t, i), rp, ap, bp, omt, t, i + 1, size)
    ELSE h

\* for (; i + 3 < size; i += 4), followed by the remainder loop
RECURSIVE LerpUnrolled(_, _, _, _, _, _, _, _)
LerpUnrolled(h, rp, ap, bp, omt, t, i, size) ==
    IF i + 3 < size
    THEN LET h1 == LerpStore(h, rp, ap, bp, omt, t, i)
             h2 == LerpStore(h1, rp, ap, bp, omt, t, i + 1)
             h3 == LerpStore(h2, rp, ap, bp, omt, t, i + 2)
             h4 == LerpStore(h3, rp, ap, bp, omt, t, i + 3)
         IN  LerpUnrolled(h4, rp, ap, bp, omt, t, i + 4, size)
    ELSE LerpRemainder(h, rp, ap, bp, omt, t, i, size)

vector_lerp(S, a, b, t, result) ==
    IF a = NULL \/ b = NULL \/ result = NULL THEN { Outcome(S, VECTOR_ERROR_NULL) }
    ELSE IF ~vector_valid(S, a) \/ ~vector_valid(S, b) \/ ~vector_valid(S, result) THEN
        { Outcome(S, VECTOR_ERROR_INIT) }
    ELSE IF S.vec[a].size # S.vec[b].size \/ S.vec[a].size # S.vec[result].size THEN
        { Outcome(S, VECTOR_ERROR_SIZE) }
    ELSE
        LET ap == S.vec[a].elements
            bp == S.vec[b].elements
            rp == S.vec[result].elements
            n  == S.vec[a].size
        IN  { Outcome([S EXCEPT
                         !.heap = LerpUnrolled(S.heap, rp, ap, bp, RSub(Rat(1), t), t, 0, n),
                         !.ub = S.ub \/ Overruns(S.heap, rp, n)
                                     \/ Overruns(S.heap, ap, n)
                                     \/ Overruns(S.heap, bp, n)],
                      VECTOR_SUCCESS) }

\* vector_3d(x, y, z, &slot)
vector_3d(S, x, y, z, slot) ==
    IF slot = NULL THEN { Outcome(S, VECTOR_ERROR_NULL) }
    ELSE
        { IF c.ret # VECTOR_SUCCESS THEN c
          ELSE LET p == c.st.vec[slot].elements
               IN  Outcome([c.st EXCEPT
                              !.heap = Store(Store(Store(c.st.heap, p, 0, x), p, 1, y),
                                             p, 2, z)],
                           VECTOR_SUCCESS)
          : c \in vector_create(S, 3, slot) }

vector_cross(S, a, b, result) ==
    IF a = NULL \/ b = NULL \/ result = NULL THEN { Outcome(S, VECTOR_ERROR_NULL) }
    ELSE IF ~vector_valid(S, a) \/ ~vector_valid(S, b) \/ ~vector_valid(S, result) THEN
        { Outcome(S, VECTOR_ERROR_INIT) }
    ELSE IF S.vec[a].size # 3 \/ S.vec[b].size # 3 \/ S.vec[result].size # 3 THEN
        { Outcome(S, VECTOR_ERROR_SIZE) }
    ELSE
        LET ap == S.vec[a].elements
            bp == S.vec[b].elements
            rp == S.vec[result].elements
            \* r_data[0] = a_data[1] * b_data[2] - a_data[2] * b_data[1]
            h1 == Store(S.heap, rp, 0,
                        RSub(RMul(Load(S.heap, ap, 1), Load(S.heap, bp, 2)),
                             RMul(Load(S.heap, ap, 2), Load(S.heap, bp, 1))))
            \* r_data[1] = a_data[2] * b_data[0] - a_data[0] * b_data[2]
            h2 == Store(h1, rp, 1,
                        RSub(RMul(Load(h1, ap, 2), Load(h1, bp, 0)),
                             RMul(Load(h1, ap, 0), Load(h1, bp, 2))))
            \* r_data[2] = a_data[0] * b_data[1] - a_data[1] * b_data[0]
            h3 == Store(h2, rp, 2,
                        RSub(RMul(Load(h2, ap, 0), Load(h2, bp, 1)),
                             RMul(Load(h2, ap, 1), Load(h2, bp, 0))))
        IN  { Outcome([S EXCEPT !.heap = h3,
                                !.ub = S.ub \/ Overruns(S.heap, rp, 3)
                                            \/ Overruns(S.heap, ap, 3)
                                            \/ Overruns(S.heap, bp, 3)],
                      VECTOR_SUCCESS) }

---------------------------------------------------------------------------
(* Reductions *)

\* fmin(x, y) and fmax(x, y)
RMin(x, y) == IF x = Indet \/ y = Indet THEN Indet
              ELSE IF x[1] * y[2] < y[1] * x[2] THEN x ELSE y
RMax(x, y) == IF x = Indet \/ y = Indet THEN Indet
              ELSE IF x[1] * y[2] > y[1] * x[2] THEN x ELSE y

Extreme(name, x, y) == IF name = "min" THEN RMin(x, y) ELSE RMax(x, y)

\* for (; i < size; i++) current = fmin(current, data[i])
RECURSIVE ExtremeRemainder(_, _, _, _, _, _)
ExtremeRemainder(h, name, p, size, i, current) ==
    IF i < size
    THEN ExtremeRemainder(h, name, p, size, i + 1, Extreme(name, current, Load(h, p, i)))
    ELSE current

\* for (; i + 3 < size; i += 4), followed by the remainder loop
RECURSIVE ExtremeUnrolled(_, _, _, _, _, _)
ExtremeUnrolled(h, name, p, size, i, current) ==
    IF i + 3 < size
    THEN ExtremeUnrolled(h, name, p, size, i + 4,
             Extreme(name, Extreme(name, Extreme(name, Extreme(name, current,
                 Load(h, p, i)), Load(h, p, i + 1)),
                 Load(h, p, i + 2)), Load(h, p, i + 3)))
    ELSE ExtremeRemainder(h, name, p, size, i, current)

\* the body shared by vector_min and vector_max; hasOut is FALSE for a null
\* output pointer
MinMax(S, name, v, hasOut) ==
    IF v = NULL \/ ~hasOut THEN { Outcome(S, VECTOR_ERROR_NULL) }
    ELSE IF ~vector_valid(S, v) THEN { Outcome(S, VECTOR_ERROR_INIT) }
    ELSE IF S.vec[v].size = 0 THEN { Outcome(S, VECTOR_ERROR_SIZE) }
    ELSE
        LET p == S.vec[v].elements
        IN  { Outcome([S EXCEPT
                         !.out = ExtremeUnrolled(S.heap, name, p, S.vec[v].size, 1,
                                                 Load(S.heap, p, 0)),
                         !.ub = S.ub \/ Overruns(S.heap, p, S.vec[v].size)],
                      VECTOR_SUCCESS) }

vector_min(S, v, hasOut) == MinMax(S, "min", v, hasOut)

vector_max(S, v, hasOut) == MinMax(S, "max", v, hasOut)

\* the loop of vector_sum: one compensated step per element
RECURSIVE SumLoop(_, _, _, _, _)
SumLoop(h, p, size, i, acc) ==
    IF i < size THEN SumLoop(h, p, size, i + 1, KahanAdd(acc, Load(h, p, i)))
    ELSE acc

\* vector_sum(v, &val): the return code and the value written (Indet when
\* nothing is written)
vector_sum(S, v) ==
    IF v = NULL THEN [ret |-> VECTOR_ERROR_NULL, val |-> Indet]
    ELSE IF ~vector_valid(S, v) THEN [ret |-> VECTOR_ERROR_INIT, val |-> Indet]
    ELSE [ret |-> VECTOR_SUCCESS,
          val |-> SumLoop(S.heap, S.vec[v].elements, S.vec[v].size, 0,
                          [sum |-> Zero, c |-> Zero]).sum]

vector_mean(S, v, hasOut) ==
    IF v = NULL \/ ~hasOut THEN { Outcome(S, VECTOR_ERROR_NULL) }
    ELSE IF ~vector_valid(S, v) THEN { Outcome(S, VECTOR_ERROR_INIT) }
    ELSE IF S.vec[v].size = 0 THEN { Outcome(S, VECTOR_ERROR_SIZE) }
    ELSE
        LET sum == vector_sum(S, v)
        IN  IF sum.ret # VECTOR_SUCCESS THEN { Outcome(S, sum.ret) }
            ELSE { Outcome([S EXCEPT !.out = RDiv(sum.val, Rat(S.vec[v].size))],
                           VECTOR_SUCCESS) }

---------------------------------------------------------------------------
(* Elementwise arithmetic *)

\* the right-hand side of the assignment in the loop of vector_<name>
ElementOf(name, x, y) ==
    CASE name = "add"    -> RAdd(x, y)
      [] name = "sub"    -> RSub(x, y)
      [] name = "scale"  -> RMul(x, y)
      [] name = "mult"   -> RMul(x, y)
      [] name = "negate" -> RNeg(x)

\* for (i = 0; i < n; i++) result->elements[i] = a->elements[i] <op> ...;
\* the second operand is b->elements[i], or the scalar of vector_scale
RECURSIVE ElementLoop(_, _, _, _, _, _, _, _)
ElementLoop(h, name, rp, ap, bp, scaler, i, n) ==
    IF i < n
    THEN ElementLoop(Store(h, rp, i,
                           ElementOf(name, Load(h, ap, i),
                                     IF name = "scale" THEN scaler ELSE Load(h, bp, i))),
                     name, rp, ap, bp, scaler, i + 1, n)
    ELSE h

\* Binary that clears the result before the loop
Binary_ClearsResult(S, name, a, b, result) ==
    IF a = NULL \/ b = NULL \/ result = NULL THEN { Outcome(S, VECTOR_ERROR_NULL) }
    ELSE IF ~vector_valid(S, a) \/ ~vector_valid(S, b) \/ ~vector_valid(S, result) THEN
        { Outcome(S, VECTOR_ERROR_INIT) }
    ELSE IF S.vec[a].size # S.vec[b].size \/ S.vec[a].size # S.vec[result].size THEN
        { Outcome(S, VECTOR_ERROR_SIZE) }
    ELSE
        LET n  == S.vec[a].size
            rp == S.vec[result].elements
            ap == S.vec[a].elements
            bp == S.vec[b].elements
            h0 == MemsetZero(S.heap, rp, 0, SzMul(n, SizeofDouble))
        IN  { Outcome([S EXCEPT
                         !.heap = ElementLoop(h0, name, rp, ap, bp, Zero, 0, n)],
                      VECTOR_SUCCESS) }

\* the body shared by vector_add, vector_sub and vector_mult
Binary(S, name, a, b, result) ==
    IF a = NULL \/ b = NULL \/ result = NULL THEN { Outcome(S, VECTOR_ERROR_NULL) }
    ELSE IF ~vector_valid(S, a) \/ ~vector_valid(S, b) \/ ~vector_valid(S, result) THEN
        { Outcome(S, VECTOR_ERROR_INIT) }
    ELSE IF S.vec[a].size # S.vec[b].size \/ S.vec[a].size # S.vec[result].size THEN
        { Outcome(S, VECTOR_ERROR_SIZE) }
    ELSE
        LET n  == S.vec[a].size
            rp == S.vec[result].elements
            ap == S.vec[a].elements
            bp == S.vec[b].elements
        IN  { Outcome([S EXCEPT
                         !.heap = ElementLoop(S.heap, name, rp, ap, bp, Zero, 0, n),
                         !.ub = S.ub \/ Overruns(S.heap, rp, n)
                                     \/ Overruns(S.heap, ap, n)
                                     \/ Overruns(S.heap, bp, n)],
                      VECTOR_SUCCESS) }

\* the body shared by vector_scale and vector_negate
Unary(S, name, a, scaler, result) ==
    IF a = NULL \/ result = NULL THEN { Outcome(S, VECTOR_ERROR_NULL) }
    ELSE IF ~vector_valid(S, a) \/ ~vector_valid(S, result) THEN
        { Outcome(S, VECTOR_ERROR_INIT) }
    ELSE IF S.vec[a].size # S.vec[result].size THEN { Outcome(S, VECTOR_ERROR_SIZE) }
    ELSE
        LET n  == S.vec[a].size
            rp == S.vec[result].elements
            ap == S.vec[a].elements
        IN  { Outcome([S EXCEPT
                         !.heap = ElementLoop(S.heap, name, rp, ap, NULL, scaler, 0, n),
                         !.ub = S.ub \/ Overruns(S.heap, rp, n)
                                     \/ Overruns(S.heap, ap, n)],
                      VECTOR_SUCCESS) }

vector_add(S, a, b, result) == Binary(S, "add", a, b, result)

vector_sub(S, a, b, result) == Binary(S, "sub", a, b, result)

vector_scale(S, a, scaler, result) == Unary(S, "scale", a, scaler, result)

vector_mult(S, a, b, result) == Binary(S, "mult", a, b, result)

vector_negate(S, a, result) == Unary(S, "negate", a, Zero, result)

\* the loop of vector_div: the heap it leaves and the code it returns.
\* for (i = 0; i < n; i++) {
\*     if (b->elements[i] == 0.0) return VECTOR_ERROR_MATH;
\*     result->elements[i] = a->elements[i] / b->elements[i]; }
RECURSIVE DivLoop(_, _, _, _, _, _)
DivLoop(h, rp, ap, bp, i, n) ==
    IF i < n
    THEN UNION { IF isZero THEN { [heap |-> h, ret |-> VECTOR_ERROR_MATH] }
                 ELSE DivLoop(Store(h, rp, i, RDiv(Load(h, ap, i), Load(h, bp, i))),
                              rp, ap, bp, i + 1, n)
                 : isZero \in RIsZero(Load(h, bp, i)) }
    ELSE { [heap |-> h, ret |-> VECTOR_SUCCESS] }

vector_div(S, a, b, result) ==
    IF a = NULL \/ b = NULL \/ result = NULL THEN { Outcome(S, VECTOR_ERROR_NULL) }
    ELSE IF ~vector_valid(S, a) \/ ~vector_valid(S, b) \/ ~vector_valid(S, result) THEN
        { Outcome(S, VECTOR_ERROR_INIT) }
    ELSE IF S.vec[a].size # S.vec[b].size \/ S.vec[a].size # S.vec[result].size THEN
        { Outcome(S, VECTOR_ERROR_SIZE) }
    ELSE
        LET n  == S.vec[a].size
            rp == S.vec[result].elements
            ap == S.vec[a].elements
            bp == S.vec[b].elements
        IN  { Outcome([S EXCEPT
                         !.heap = l.heap,
                         !.ub = S.ub \/ Overruns(S.heap, rp, n)
                                     \/ Overruns(S.heap, ap, n)
                                     \/ Overruns(S.heap, bp, n)],
                      l.ret)
              : l \in DivLoop(S.heap, rp, ap, bp, 0, n) }

---------------------------------------------------------------------------
(* The factorial utilities (utils.c) *)

\* a uint64_t, and a double_t that holds an integer, is the sequence of its
\* digits in base Base, the lowest first and the highest not 0 (0 is << >>)
Base == 1000

\* x * k + c for 0 <= k, c < Base
RECURSIVE MulAdd(_, _, _)
MulAdd(x, k, c) ==
    IF x = <<>> THEN (IF c = 0 THEN <<>> ELSE <<c>>)
    ELSE LET t == x[1] * k + c
         IN  <<t % Base>> \o MulAdd(Tail(x), k, t \div Base)

\* x without its leading zero digits
RECURSIVE Trim(_)
Trim(x) == IF x # <<>> /\ x[Len(x)] = 0 THEN Trim(SubSeq(x, 1, Len(x) - 1)) ELSE x

\* x = 2 * q + r
RECURSIVE HalveDigits(_)
HalveDigits(x) ==
    IF x = <<>> THEN [q |-> <<>>, r |-> 0]
    ELSE LET h == HalveDigits(Tail(x))
             t == x[1] + Base * h.r
         IN  [q |-> <<t \div 2>> \o h.q, r |-> t % 2]

Halve(x) == [q |-> Trim(HalveDigits(x).q), r |-> HalveDigits(x).r]

RECURSIVE LessFrom(_, _, _)
LessFrom(x, y, i) ==
    IF i = 0 THEN FALSE
    ELSE IF x[i] # y[i] THEN x[i] < y[i]
    ELSE LessFrom(x, y, i - 1)

\* x < y
Less(x, y) == IF Len(x) # Len(y) THEN Len(x) < Len(y) ELSE LessFrom(x, y, Len(x))

RECURSIVE Doubled(_, _)
Doubled(x, k) == IF k = 0 THEN x ELSE Doubled(MulAdd(x, 2, 0), k - 1)

\* 2^53: a double_t has 53 significant bits
TwoTo53 == <<992, 740, 254, 199, 7, 9>>

\* x shifted right until it has at most 53 bits, rounded to nearest (ties to
\* even) on the bits shifted out, and shifted back by k
RECURSIVE RoundTo53(_, _, _, _)
RoundTo53(x, k, last, sticky) ==
    IF Less(x, TwoTo53)
    THEN LET odd == x # <<>> /\ x[1] % 2 = 1
             up  == last = 1 /\ (sticky = 1 \/ odd)
         IN  Doubled(IF up THEN MulAdd(x, 1, 1) ELSE x, k)
    ELSE RoundTo53(Halve(x).q, k + 1, Halve(x).r, IF last = 1 THEN 1 ELSE sticky)

\* (double_t)exact for a uint64_t
ToDouble(x) == RoundTo53(x, 0, 0, 0)

\* double_t values that are no integer of the table: 1.0 is <<1>>, and
\* tgamma(n + 1), the value of Stirling's formula at n, and INFINITY are kept
\* as symbols of the argument n = num/den
OnePointZero       == <<1>>
Tgamma(n)  == <<-1, n[1], n[2]>>
Stirling(n) == <<-2, n[1], n[2]>>
INFINITY   == <<-3>>

true  == 1
false == 0

MAX_FACTORIAL_INPUT == 20
FLAG_FORCE_LOOKUP   == 1
FLAG_FORCE_GAMMA    == 2
FLAG_FORCE_STIRLING == 4
FLAG_PREFER_EXACT   == 8

\* flags & flag, for a flag of one bit
HasFlag(flags, flag) == (flags \div flag) % 2 = 1

FACTORIAL_LUT ==
    << <<1>>,
       <<1>>,
       <<2>>,
       <<6>>,
       <<24>>,
       <<120>>,
       <<720>>,
       <<40, 5>>,
       <<320, 40>>,
       <<880, 362>>,
       <<800, 628, 3>>,
       <<800, 916, 39>>,
       <<600, 1, 479>>,
       <<800, 20, 227, 6>>,
       <<200, 291, 178, 87>>,
       <<0, 368, 674, 307, 1>>,
       <<0, 888, 789, 922, 20>>,
       <<0, 96, 428, 687, 355>>,
       <<0, 728, 705, 373, 402, 6>>,
       <<0, 832, 408, 100, 645, 121>>,
       <<0, 640, 176, 8, 902, 432, 2>> >>

\* FACTORIAL_LUT[n], n counted from 0
Lut(n) == FACTORIAL_LUT[n + 1]

\* the comparisons of a double_t n = num/den with an integer k
DLess(n, k)    == n[1] < k * n[2]
DGreater(n, k) == n[1] > k * n[2]
DEquals(n, k)  == n[1] = k * n[2]

\* (int)n for n >= 0 (inputs stay in the range of int)
ToInt(n) == n[1] \div n[2]

\* each function below gives its return value and the content val of
\* *result after the call, for the content pre before it

\* lookup_factorial(n, &val), n an int
lookup_factorial_Below20(n, pre) ==
    IF n < 0 \/ n > 19 THEN [ret |-> false, val |-> pre]
    ELSE [ret |-> true, val |-> Lut(n)]

lookup_factorial(n, pre) ==
    IF n < 0 \/ n > 20 THEN [ret |-> false, val |-> pre]
    ELSE [ret |-> true, val |-> Lut(n)]

\* gamma_factorial(n, &val); tgamma(n + 1) is finite for n <= 170, so the
\* test !isinf && !isnan of the result is true on this path
gamma_factorial(n, pre) ==
    IF DLess(n, 0) THEN [ret |-> false, val |-> pre]
    ELSE IF DEquals(n, 0) THEN [ret |-> true, val |-> OnePointZero]
    ELSE IF DGreater(n, 170) THEN [ret |-> false, val |-> INFINITY]
    ELSE [ret |-> true, val |-> Tgamma(n)]

stirlings_factorial(n, pre) ==
    IF DLess(n, 0) THEN [ret |-> false, val |-> pre]
    ELSE IF DEquals(n, 0) \/ DEquals(n, 1) THEN [ret |-> true, val |-> OnePointZero]
    ELSE [ret |-> true, val |-> Stirling(n)]

\* factorial(n, &val, flags) for a double_t n that is not NaN
factorial(n, pre, flags) ==
    IF DLess(n, 0) THEN [ret |-> false, val |-> pre]
    ELSE IF HasFlag(flags, FLAG_FORCE_LOOKUP) THEN
        LET int_n == ToInt(n)
            exact == lookup_factorial(int_n, <<>>)
        IN  IF ~DEquals(n, int_n) THEN [ret |-> false, val |-> pre]
            ELSE IF exact.ret = false THEN [ret |-> false, val |-> pre]
            ELSE [ret |-> true, val |-> ToDouble(exact.val)]
    ELSE IF HasFlag(flags, FLAG_FORCE_GAMMA) THEN gamma_factorial(n, pre)
    ELSE IF HasFlag(flags, FLAG_FORCE_STIRLING) THEN stirlings_factorial(n, pre)
    ELSE IF HasFlag(flags, FLAG_PREFER_EXACT) \/ DEquals(n, ToInt(n)) THEN
        LET int_n == ToInt(n)
            exact == lookup_factorial(int_n, <<>>)
        IN  IF int_n <= 20 /\ exact.ret = true THEN
                [ret |-> true, val |-> ToDouble(exact.val)]
            ELSE IF int_n <= 170 THEN gamma_factorial(n, pre)
            ELSE IF HasFlag(flags, FLAG_PREFER_EXACT) THEN [ret |-> false, val |-> pre]
            ELSE stirlings_factorial(n, pre)
    ELSE stirlings_factorial(n, pre)

---------------------------------------------------------------------------
(* The calls of a client program *)

ReqSizes == (0..MaxSmall) \cup
            {VECTOR_MIN_CAPACITY, VECTOR_MIN_CAPACITY + 1}

Indices == 0..MaxIdx

\* a Vector* argument: a handle obtained from vector_create and not yet freed
VecArgs(hs) == { v \in hs : vec[v].alive }

\* a Vector** argument: the address of an unused handle
SlotArgs(hs) == { v \in hs : ~vec[v].alive }

\* the record of a call: its name and arguments, and the size and capacity
\* its first vector argument had on entry
Call3(name, v, w, u, n, x) ==
    [name |-> name, v |-> v, w |-> w, u |-> u, n |-> n, x |-> x,
     size0 |-> IF v = NULL THEN 0 ELSE vec[v].size,
     cap0  |-> IF v = NULL THEN 0 ELSE vec[v].capacity]

Call(name, v, w, n, x) == Call3(name, v, w, NULL, n, x)

\* the call `c` returns with outcome r
Returns(r, c) ==
    /\ vec'  = r.st.vec
    /\ heap' = r.st.heap
    /\ ub'   = r.st.ub
    /\ oom'  = r.st.oom
    /\ out'  = r.st.out
    /\ ret'  = r.ret
    /\ op'   = c

\* a call outside a growth run (see Grow), whose reallocations are not counted
Commit(r, c) == Returns(r, c) /\ UNCHANGED reallocs

Create(hs, sizes) ==
    \E size \in sizes, slot \in SlotArgs(hs) :
        \E r \in vector_create(Cur, size, slot) :
            Commit(r, Call("create", slot, NULL, size, Zero))

InitVec(hs, sizes) ==
    \E size \in sizes, v \in VecArgs(hs) :
        \E r \in vector_init(Cur, v, size) :
            Commit(r, Call("init", v, NULL, size, Zero))

FreeVec(hs) ==
    \E v \in VecArgs(hs) :
        \E r \in vector_free(Cur, v) :
            Commit(r, Call("free", v, NULL, 0, Zero))

Resize(hs, sizes) ==
    \E size \in sizes, v \in VecArgs(hs) :
        \E r \in vector_resize(Cur, v, size) :
            Commit(r, Call("resize", v, NULL, size, Zero))

ResizeZero(hs, sizes) ==
    \E size \in sizes, v \in VecArgs(hs) :
        \E r \in vector_resize_zero(Cur, v, size) :
            Commit(r, Call("resize_zero", v, NULL, size, Zero))

Reserve(hs, sizes) ==
    \E capacity \in sizes, v \in VecArgs(hs) :
        \E r \in vector_reserve(Cur, v, capacity) :
            Commit(r, Call("reserve", v, NULL, capacity, Zero))

ShrinkToFit(hs) ==
    \E v \in VecArgs(hs) :
        \E r \in vector_shrink_to_fit(Cur, v) :
            Commit(r, Call("shrink_to_fit", v, NULL, 0, Zero))

Get(hs) ==
    \E index \in Indices, v \in VecArgs(hs) :
        \E r \in vector_get(Cur, v, index, TRUE) :
            Commit(r, Call("get", v, NULL, index, Zero))

Set(hs, vals) ==
    \E index \in Indices, v \in VecArgs(hs), val \in vals :
        \E r \in vector_set(Cur, v, index, val) :
            Commit(r, Call("set", v, NULL, index, val))

\* the values a client stores: the operands of the arithmetic are made of
\* these (and of zeroed or unspecified slots), which keeps the values finite
ClientVals == SetVals \cup {Zero, Indet}

HoldsClientVals(v) ==
    \A i \in 0..(vec[v].size - 1) : Load(heap, vec[v].elements, i) \in ClientVals

\* vector_copy(src, dest)
Copy(srcs, dests) ==
    \E src \in VecArgs(srcs), dest \in VecArgs(dests) :
        \E r \in vector_copy(Cur, src, dest) :
            Commit(r, Call("copy", dest, src, 0, Zero))

\* vector_equals(a, b, tolerance)
Equals(hs) ==
    \E a \in VecArgs(hs), b \in VecArgs(hs), tolerance \in {Zero} :
        \E r \in vector_equals(Cur, a, b, tolerance) :
            Commit(r, Call("equals", a, b, 0, tolerance))

\* elements [0, size) of vector v
Content(v) == [i \in 1..vec[v].size |-> Load(heap, vec[v].elements, i - 1)]

\* vector_reflect(a, b, result) on operands whose elements are one of contents
ReflectOf(hs, results, contents) ==
    \E a \in VecArgs(hs), b \in VecArgs(hs), result \in VecArgs(results) :
        /\ Content(a) \in contents /\ Content(b) \in contents
        /\ \E r \in vector_reflect(Cur, a, b, result) :
               Commit(r, Call3("reflect", result, a, b, 0, Zero))

\* vector_reflect(a, b, result)
Reflect(hs, results) == ReflectOf(hs, results, Seq(ClientVals))

\* vector_add(a, b, result)
Add(hs, results) ==
    \E a \in VecArgs(hs), b \in VecArgs(hs), result \in VecArgs(results) :
        /\ HoldsClientVals(a) /\ HoldsClientVals(b)
        /\ \E r \in vector_add(Cur, a, b, result) :
               Commit(r, Call3("add", result, a, b, 0, Zero))

\* vector_sub(a, b, result)
Sub(hs, results) ==
    \E a \in VecArgs(hs), b \in VecArgs(hs), result \in VecArgs(results) :
        /\ HoldsClientVals(a) /\ HoldsClientVals(b)
        /\ \E r \in vector_sub(Cur, a, b, result) :
               Commit(r, Call3("sub", result, a, b, 0, Zero))

\* vector_scale(a, scaler, result)
Scale(hs, results, scalers) ==
    \E a \in VecArgs(hs), result \in VecArgs(results), scaler \in scalers :
        /\ HoldsClientVals(a)
        /\ \E r \in vector_scale(Cur, a, scaler, result) :
               Commit(r, Call3("scale", result, a, NULL, 0, scaler))

\* vector_mult(a, b, result)
Mult(hs, results) ==
    \E a \in VecArgs(hs), b \in VecArgs(hs), result \in VecArgs(results) :
        /\ HoldsClientVals(a) /\ HoldsClientVals(b)
        /\ \E r \in vector_mult(Cur, a, b, result) :
               Commit(r, Call3("mult", result, a, b, 0, Zero))

\* vector_div(a, b, result)
Div(hs, results) ==
    \E a \in VecArgs(hs), b \in VecArgs(hs), result \in VecArgs(results) :
        /\ HoldsClientVals(a) /\ HoldsClientVals(b)
        /\ \E r \in vector_div(Cur, a, b, result) :
               Commit(r, Call3("div", result, a, b, 0, Zero))

\* vector_negate(a, result)
Negate(hs, results) ==
    \E a \in VecArgs(hs), result \in VecArgs(results) :
        /\ HoldsClientVals(a)
        /\ \E r \in vector_negate(Cur, a, result) :
               Commit(r, Call3("negate", result, a, NULL, 0, Zero))

\* vector_create_zero(size, &slot)
CreateZero(hs, sizes) ==
    \E size \in sizes, slot \in SlotArgs(hs) :
        \E r \in vector_create_zero(Cur, size, slot) :
            Commit(r, Call("create_zero", slot, NULL, size, Zero))

\* vector_is_zero(v, tolerance)
IsZero(hs, tolerances) ==
    \E v \in VecArgs(hs), tolerance \in tolerances :
        \E r \in vector_is_zero(Cur, v, tolerance) :
            Commit(r, Call("is_zero", v, NULL, 0, tolerance))

\* vector_min(v, &out)
Min(hs) ==
    \E v \in VecArgs(hs) :
        \E r \in vector_min(Cur, v, TRUE) :
            Commit(r, Call("min", v, NULL, 0, Zero))

\* vector_max(v, &out)
MaxOf(hs) ==
    \E v \in VecArgs(hs) :
        \E r \in vector_max(Cur, v, TRUE) :
            Commit(r, Call("max", v, NULL, 0, Zero))

\* vector_mean(v, &out)
Mean(hs) ==
    \E v \in VecArgs(hs) :
        \E r \in vector_mean(Cur, v, TRUE) :
            Commit(r, Call("mean", v, NULL, 0, Zero))

\* vector_normalize(v)
Normalize(hs) ==
    \E v \in VecArgs(hs) :
        /\ HoldsClientVals(v)
        /\ \E r \in vector_normalize(Cur, v) :
               Commit(r, Call("normalize", v, NULL, 0, Zero))

\* vector_project(a, b, result)
Project(hs, results) ==
    \E a \in VecArgs(hs), b \in VecArgs(hs), result \in VecArgs(results) :
        /\ HoldsClientVals(a) /\ HoldsClientVals(b)
        /\ \E r \in vector_project(Cur, a, b, result) :
               Commit(r, Call3("project", result, a, b, 0, Zero))

\* vector_reject(a, b, result)
Reject(hs, results) ==
    \E a \in VecArgs(hs), b \in VecArgs(hs), result \in VecArgs(results) :
        /\ HoldsClientVals(a) /\ HoldsClientVals(b)
        /\ \E r \in vector_reject(Cur, a, b, result) :
               Commit(r, Call3("reject", result, a, b, 0, Zero))

\* one step of a growth run: vector_resize(v, size + 1).  The call
\* reallocates when the new size exceeds the capacity (vector.c:140-144);
\* reallocs counts the reallocations that succeeded
Grow(hs) ==
    \E v \in VecArgs(hs) :
        /\ vec[v].size < MaxGrow
        /\ \E r \in vector_resize(Cur, v, vec[v].size + 1) :
              /\ Returns(r, Call("resize", v, NULL, vec[v].size + 1, Zero))
              /\ reallocs' = reallocs +
                    (IF vec[v].size + 1 > vec[v].capacity /\ r.ret = VECTOR_SUCCESS
                     THEN 1 ELSE 0)

\* vector_3d(x, y, z, &slot)
Vec3d(hs, vals) ==
    \E x \in vals, y \in vals, z \in vals, slot \in SlotArgs(hs) :
        \E r \in vector_3d(Cur, x, y, z, slot) :
            Commit(r, Call("3d", slot, NULL, 3, Zero))

\* vector_cross(a, b, result)
Cross(hs, results) ==
    \E a \in VecArgs(hs), b \in VecArgs(hs), result \in VecArgs(results) :
        /\ HoldsClientVals(a) /\ HoldsClientVals(b)
        /\ \E r \in vector_cross(Cur, a, b, result) :
               Commit(r, Call3("cross", result, a, b, 0, Zero))

\* vector_from_array(arr, Len(arr), &slot)
FromArray(hs, arrays) ==
    \E arr \in arrays, slot \in SlotArgs(hs) :
        \E r \in vector_from_array(Cur, arr, TRUE, Len(arr), slot) :
            Commit(r, Call("from_array", slot, NULL, Len(arr), Zero))

\* vector_dot(a, b, &out)
Dot(hs) ==
    \E a \in VecArgs(hs), b \in VecArgs(hs) :
        LET d == vector_dot(Cur, a, b)
        IN  Commit(Outcome(IF d.ret = VECTOR_SUCCESS
                           THEN [Cur EXCEPT !.out = d.val] ELSE Cur,
                           d.ret),
                   Call("dot", a, b, 0, Zero))

\* vector_lerp(a, b, t, result)
Lerp(hs, results, ts) ==
    \E a \in VecArgs(hs), b \in VecArgs(hs), result \in VecArgs(results), t \in ts :
        /\ HoldsClientVals(a) /\ HoldsClientVals(b)
        /\ \E r \in vector_lerp(Cur, a, b, t, result) :
               Commit(r, Call3("lerp", result, a, b, 0, t))

\* result = prev: the caller sets the variable it is about to pass to
\* factorial (utils_test.c:49-50), or declares it and leaves it unset
Assign(prevs) ==
    \E prev \in prevs :
        /\ op.name # "assign"
        /\ Commit(Outcome([Cur EXCEPT !.out = prev], ret),
                  Call("assign", NULL, NULL, 0, Zero))

\* factorial(n, &out, flags) on the variable the caller has just set
Factorial(ns, flagss) ==
    \E n \in ns, flags \in flagss :
        /\ op.name = "assign"
        /\ LET f == factorial(n, out, flags)
           IN  Commit(Outcome([Cur EXCEPT !.out = f.val], f.ret),
                      Call("factorial", NULL, NULL, flags, n))

---------------------------------------------------------------------------
(* Specification of one vector under the lifecycle, capacity and access calls *)

Init ==
    /\ vec  = [v \in Vectors |-> NoVector]
    /\ heap = [a \in Addrs |-> FreeCell]
    /\ ub   = FALSE
    /\ oom  = FALSE
    /\ out  = Indet
    /\ ret  = VECTOR_SUCCESS
    /\ op   = [name |-> "none", v |-> NULL, w |-> NULL, u |-> NULL, n |-> 0, x |-> Zero,
               size0 |-> 0, cap0 |-> 0]
    /\ reallocs = 0

One == {1}

Next ==
    \/ Create(One, ReqSizes)
    \/ InitVec(One, ReqSizes)
    \/ FreeVec(One)
    \/ Resize(One, ReqSizes)
    \/ ResizeZero(One, ReqSizes)
    \/ Reserve(One, ReqSizes)
    \/ ShrinkToFit(One)
    \/ Get(One)
    \/ Set(One, SetVals)

Spec == Init /\ [][Next]_vars

---------------------------------------------------------------------------
(* Specification of two vectors: the calls above on small sizes, and the     *)
(* calls that take several vectors                                           *)

Two == {1, 2}

SmallSizes == 0..MaxSmall

NextPair ==
    \/ Create(Two, SmallSizes)
    \/ Set(Two, {Rat(1)})
    \/ InitVec(One, SmallSizes)
    \/ Resize(One, SmallSizes)
    \/ ResizeZero(One, SmallSizes)
    \/ Reserve(One, SmallSizes)
    \/ ShrinkToFit(One)
    \/ Copy(Two, One)
    \/ Equals(Two)
    \/ Reflect(Two, One)

SpecPair == Init /\ [][NextPair]_vars

---------------------------------------------------------------------------
(* Specification of the elementwise arithmetic on two vectors, either of     *)
(* which can be the result                                                   *)

ArithSizes == {0, 2}

NextArith ==
    \/ Create(Two, ArithSizes)
    \/ Set(Two, {Rat(1)})
    \/ Resize(One, ArithSizes)
    \/ Add(Two, One)
    \/ Sub(Two, One)
    \/ Scale(Two, One, {Rat(2)})
    \/ Mult(Two, One)
    \/ Div(Two, One)
    \/ Negate(Two, One)

SpecArith == Init /\ [][NextArith]_vars

---------------------------------------------------------------------------
(* Specification of the predicates, the reductions and the zeroed constructor *)

NextQuery ==
    \/ Create(Two, ArithSizes)
    \/ CreateZero(Two, ArithSizes)
    \/ FreeVec(Two)
    \/ Set(Two, {Rat(1)})
    \/ Resize(Two, ArithSizes)
    \/ Equals(Two)
    \/ IsZero(Two, {Zero})
    \/ Min(Two)
    \/ MaxOf(Two)
    \/ Mean(Two)

SpecQuery == Init /\ [][NextQuery]_vars

---------------------------------------------------------------------------
(* Specification of the cross product: two operands made by vector_3d or     *)
(* vector_create, and a result that is a third vector or one of the operands *)

Three == {1, 2, 3}

NextCross ==
    \/ Vec3d(Two, {Zero, Rat(1)})
    \/ Create(Three, {0, 2, 3})
    \/ FreeVec({3})
    \/ Cross(Two, Three)

SpecCross == Init /\ [][NextCross]_vars

---------------------------------------------------------------------------
(* Specification of normalization, projection, rejection and reflection *)

NextGeom ==
    \/ Create(Two, ArithSizes)
    \/ Set(Two, {Rat(1)})
    \/ Resize(One, ArithSizes)
    \/ Normalize(Two)
    \/ Project(Two, One)
    \/ Reject(Two, One)
    \/ Reflect(Two, One)

SpecGeom == Init /\ [][NextGeom]_vars

---------------------------------------------------------------------------
(* Specification of a growth run: create(0), then resize(v, 1), resize(v, 2), *)
(* ... one element at a time                                                  *)

NextGrow ==
    \/ Create(One, {0})
    \/ Grow(One)

SpecGrow == Init /\ [][NextGrow]_vars

---------------------------------------------------------------------------
(* Specification of the dot product: vectors of every length up to MaxLen    *)
(* made from arrays of the client, or empty from vector_create(0) and from   *)
(* vector_resize(v, 0)                                                       *)

\* the array k+1, k+2, ..., k+n
Ramp(n, k) == [i \in 1..n |-> Rat(k + i)]

DotArrays == { Ramp(n, k) : n \in 0..MaxLen, k \in 0..1 }

NextDot ==
    \/ FromArray(Two, DotArrays)
    \/ Create(Two, {0})
    \/ Resize(Two, {0})
    \/ FreeVec(Two)
    \/ Dot(Two)

SpecDot == Init /\ [][NextDot]_vars

---------------------------------------------------------------------------
(* Specification of reflection: operands made from the arrays [1,-1] and     *)
(* [0,1], and a result that is a third vector or one of the operands; an     *)
(* operand that was overwritten is freed and made again before it is used    *)

ReflectArrays == {<<Rat(1), Rat(-1)>>, <<Zero, Rat(1)>>}

NextReflect ==
    \/ FromArray(Two, ReflectArrays)
    \/ Create({3}, {2})
    \/ FreeVec(Two)
    \/ ReflectOf(Two, Three, ReflectArrays)

SpecReflect == Init /\ [][NextReflect]_vars

---------------------------------------------------------------------------
(* Specification of the factorial dispatcher: calls with every flags value   *)
(* on the integers from -1 to just above the table, on the arguments around  *)
(* the limits 170 and 255 of the other methods, and on 5/2                   *)

FactInputs ==
    { Rat(k) : k \in (-1)..(MAX_FACTORIAL_INPUT + MaxOver) }
        \cup { Rat(170), Rat(171), Rat(255), Rat(256), <<5, 2>> }

FlagValues == 0..15

\* 0xDEADBEEF
DEADBEEF == <<559, 928, 735, 3>>

NextFact ==
    \/ Assign({Indet, DEADBEEF})
    \/ Factorial(FactInputs, FlagValues)

SpecFact == Init /\ [][NextFact]_vars

---------------------------------------------------------------------------
(* Specification of cross, project, reject and lerp on two vectors of size 3 *)
(* made from arrays, either of which can be the result; an operand that was  *)
(* overwritten with other values is freed and made again before it is used   *)

AliasArrays == {<<Rat(1), Zero, Zero>>, <<Zero, Rat(1), Zero>>, <<Rat(1), Rat(1), Zero>>}

NextAlias ==
    \/ FromArray(Two, AliasArrays)
    \/ FreeVec(Two)
    \/ Cross(Two, Two)
    \/ Project(Two, Two)
    \/ Reject(Two, Two)
    \/ Lerp(Two, Two, {<<1, 2>>})

SpecAlias == Init /\ [][NextAlias]_vars

---------------------------------------------------------------------------
(* Specification of resize and reserve on requests from the whole range of   *)
(* size_t: 1, the values around which size * GROWTH_FACTOR and               *)
(* capacity * sizeof(double_t) reach 2^SizeBits, and the largest value       *)

WrapSizes ==
    {1, SizeMod \div (2 * SizeofDouble), SizeMod \div SizeofDouble,
     SizeMod \div SizeofDouble + 1, SizeMod \div 2, SizeMod - 1}

NextWrap ==
    \/ Create(One, {0, 1})
    \/ FreeVec(One)
    \/ Resize(One, WrapSizes)
    \/ Reserve(One, WrapSizes)

SpecWrap == Init /\ [][NextWrap]_vars

---------------------------------------------------------------------------
(* Helpers of the properties *)

\* the elements buffer of the Vector struct vr in heap h (empty when NULL)
DataOf(h, vr) == IF vr.elements = NULL THEN <<>> ELSE h[vr.elements].data

\* elements [lo, hi) of buffer d, counted from 0
Range(d, lo, hi) == [i \in 1..(hi - lo) |-> d[lo + i]]

Succeeded(name) == op.name = name /\ ret = VECTOR_SUCCESS

---------------------------------------------------------------------------
(* Properties of one vector (specification Spec) *)

C2_CreateEmptyThenGet ==
    /\ (Succeeded("create") /\ op.n = 0) =>
           vec[op.v] = [alive |-> TRUE, elements |-> NULL, size |-> 0, capacity |-> 0]
    /\ (op.name = "get" /\ op.n = 0 /\ vec[op.v].elements = NULL
           /\ vec[op.v].size = 0 /\ vec[op.v].capacity = 0) =>
           ret = VECTOR_ERROR_INDEX

C5_GrowthFromCapacity ==
    (Succeeded("resize") /\ op.n > op.cap0) =>
        vec[op.v].capacity =
            IF op.cap0 < VECTOR_MIN_CAPACITY THEN Max(VECTOR_MIN_CAPACITY, op.n)
            ELSE Max(op.cap0 * VECTOR_GROWTH_FACTOR, op.n)

\* C5 (amended): a reallocating resize(v, n) makes the capacity MIN_CAPACITY
\* when n < MIN_CAPACITY and n * GROWTH_FACTOR (in size_t arithmetic)
\* otherwise, whatever the old capacity was.
C5_GrowthFromRequest ==
    (Succeeded("resize") /\ op.n > op.cap0) =>
        vec[op.v].capacity =
            IF op.n < 16 THEN 16 ELSE (op.n * 2) % (2 ^ SizeBits)

\* a reallocating resize of a vector whose capacity was already MIN_CAPACITY
C5_Witness ==
    /\ Succeeded("resize") /\ op.n > op.cap0
    /\ op.cap0 >= VECTOR_MIN_CAPACITY
    /\ vec[op.v].capacity = 2 * op.n

\* C7: shrink_to_fit that does not fail to allocate returns success, and then
\* capacity = size, elements [0, size) are as before, and the buffer is
\* released (elements = NULL, capacity = 0) exactly when size = 0.
C7_ShrinkToFit ==
    [][ (op'.name = "shrink_to_fit" /\ ret' # VECTOR_ERROR_MEM) =>
          LET v == op'.v
          IN  /\ ret' = VECTOR_SUCCESS
              /\ vec'[v].size = vec[v].size
              /\ vec'[v].capacity = vec'[v].size
              /\ Range(DataOf(heap', vec'[v]), 0, vec[v].size)
                    = Range(DataOf(heap, vec[v]), 0, vec[v].size)
              /\ (vec'[v].elements = NULL /\ vec'[v].capacity = 0)
                    <=> vec'[v].size = 0
    ]_vars

C9_BoundsBySize ==
    [][ /\ (op'.name \in {"get", "set"} /\ vec[op'.v].elements # NULL) =>
              (ret' = VECTOR_ERROR_INDEX <=> op'.n >= vec[op'.v].size)
        /\ (op'.name = "get" /\ ret' # VECTOR_SUCCESS) => out' = Indet
        /\ (op'.name = "set" /\ ret' # VECTOR_SUCCESS) => (heap' = heap /\ vec' = vec)
        /\ (op'.name = "set" /\ ret' = VECTOR_SUCCESS) =>
              /\ vec' = vec
              /\ heap' = [heap EXCEPT ![vec[op'.v].elements].data[op'.n + 1] = op'.x]
        /\ (Succeeded("set") /\ op'.name = "get" /\ op'.v = op.v /\ op'.n = op.n) =>
              (ret' = VECTOR_SUCCESS /\ out' = op.x)
    ]_vars

\* a get refused for an index that lies inside the capacity
C9_Witness ==
    /\ op.name = "get" /\ ret = VECTOR_ERROR_INDEX
    /\ op.n >= vec[op.v].size /\ op.n < vec[op.v].capacity

\* a get that returned the 1 stored by the set before it
C9_WitnessRead ==
    /\ Succeeded("get") /\ out = Rat(1) /\ op.n = 1

---------------------------------------------------------------------------
(* Properties of two vectors (specification SpecPair) *)

\* a Vector that is valid in the sense of the specification: it exists and
\* has a buffer whenever its size is not 0
ValidVector(vr) == vr.alive /\ (vr.size > 0 => vr.elements # NULL)

C3_WitnessReflect ==
    /\ op.name = "reflect" /\ ret = VECTOR_ERROR_MEM
    /\ vec[op.v].size > 0

C10_CopyThenEquals ==
    [][ /\ (op'.name = "copy" /\ ValidVector(vec[op'.w]) /\ ~oom') =>
              ret' = VECTOR_SUCCESS
        /\ (Succeeded("copy") /\ op'.name = "equals"
              /\ op'.v = op.w /\ op'.w = op.v /\ op'.x = Zero) =>
              /\ ret' = VECTOR_SUCCESS
              /\ vec[op.v].size = vec[op.w].size
              /\ \A i \in 0..(vec[op.w].size - 1) :
                    Load(heap, vec[op.v].elements, i) = Load(heap, vec[op.w].elements, i)
    ]_vars

---------------------------------------------------------------------------
(* Properties of the elementwise arithmetic (specification SpecArith) *)

ArithNames == {"add", "sub", "scale", "mult", "div", "negate"}

\* the vectors passed to call c: result, a and (for the binary calls) b
ArgsOf(c) == {c.v, c.w, c.u} \ {NULL}

\* the vectors passed to call c all have the same size
SameSizes(c) == \A x \in ArgsOf(c), y \in ArgsOf(c) : vec[x].size = vec[y].size

\* the vectors passed to call c all have a buffer
AllBuffers(c) == \A x \in ArgsOf(c) : vec[x].elements # NULL

\* C11: add, sub, mult, div, scale and negate return VECTOR_ERROR_SIZE
\* whenever the sizes of the operands and of the result are not all the
\* same, and then change no element, size or capacity of any vector.
C11_SizeMismatch ==
    [][ (op'.name \in ArithNames /\ ~SameSizes(op')) =>
            (ret' = VECTOR_ERROR_SIZE /\ vec' = vec /\ heap' = heap)
    ]_vars

\* the value the call named `name` defines for one element from operand
\* elements x and y (y is the scalar of scale, and unused by negate)
ValueOf(name, x, y) == IF name = "div" THEN RDiv(x, y) ELSE ElementOf(name, x, y)

\* the elements of the result of call c in heap h2 are the values defined by
\* the elements the operands have in heap h1
ResultFrom(c, h1, h2) ==
    \A i \in 0..(vec[c.v].size - 1) :
        Load(h2, vec[c.v].elements, i) =
            ValueOf(c.name, Load(h1, vec[c.w].elements, i),
                    IF c.name = "scale" THEN c.x
                    ELSE IF c.u = NULL THEN Zero
                    ELSE Load(h1, vec[c.u].elements, i))

\* C12: after a successful add, sub, mult, div, scale or negate, every
\* element of result is the value computed from the elements the operands
\* had before the call, whether result is a vector of its own or is the
\* same vector as one operand or as both.
C12_AliasedResult ==
    [][ (op'.name \in ArithNames /\ ret' = VECTOR_SUCCESS) =>
            (vec' = vec /\ ResultFrom(op', heap, heap'))
    ]_vars

\* an add of a vector to itself, in place, that doubled a stored 1
C12_Witness ==
    /\ Succeeded("add") /\ op.v = op.w /\ op.v = op.u
    /\ vec[op.v].size = 2
    /\ Load(heap, vec[op.v].elements, 1) = Rat(2)

\* a div whose result is its own divisor
C12_WitnessDiv ==
    /\ Succeeded("div") /\ op.v = op.u /\ op.v # op.w
    /\ vec[op.v].size = 2
    /\ Load(heap, vec[op.v].elements, 0) = Zero

\* some element of the vector v is exactly 0
HasZero(v) == \E i \in 0..(vec[v].size - 1) : Load(heap, vec[v].elements, i) = Zero

\* C13: for valid a, b and result of one size, div(a, b, result) returns
\* VECTOR_ERROR_MATH exactly when some element of b is 0, and otherwise
\* returns success with result[i] = a[i] / b[i] for every i.
C13_DivisionDomain ==
    [][ (/\ op'.name = "div"
         /\ \A x \in ArgsOf(op') : ValidVector(vec[x])
         /\ SameSizes(op')) =>
            /\ ret' = VECTOR_ERROR_MATH <=> HasZero(op'.u)
            /\ ~HasZero(op'.u) => (ret' = VECTOR_SUCCESS /\ ResultFrom(op', heap, heap'))
    ]_vars

\* C14: a div that returns VECTOR_ERROR_MATH leaves every element of
\* result (and of every other vector) as it was before the call.
C14_DivFailsAtomically ==
    [][ (op'.name = "div" /\ ret' = VECTOR_ERROR_MATH) => (vec' = vec /\ heap' = heap)
    ]_vars

---------------------------------------------------------------------------
(* Properties of the predicates, the reductions and the zeroed constructor  *)
(* (specification SpecQuery)                                                 *)

\* |x| <= tol
Within(x, tol) == RGreater(RAbs(x), tol) = {FALSE}

\* C15: for a and b with a buffer and of one size, equals(a, b, tol) returns
\* VECTOR_SUCCESS exactly when |a[i] - b[i]| <= tol for every i, and for v
\* with a buffer is_zero(v, tol) returns VECTOR_SUCCESS exactly when
\* |v[i]| <= tol for every i; both return an error code otherwise.
C15_PredicateResult ==
    [][ /\ (op'.name = "equals" /\ AllBuffers(op') /\ SameSizes(op')) =>
              (ret' = VECTOR_SUCCESS <=>
                  \A i \in 0..(vec[op'.v].size - 1) :
                      Within(RSub(Load(heap, vec[op'.v].elements, i),
                                  Load(heap, vec[op'.w].elements, i)), op'.x))
        /\ (op'.name = "is_zero" /\ AllBuffers(op')) =>
              (ret' = VECTOR_SUCCESS <=>
                  \A i \in 0..(vec[op'.v].size - 1) :
                      Within(Load(heap, vec[op'.v].elements, i), op'.x))
    ]_vars

\* C16: min, max and mean of a vector of size 0, whether made by create(0)
\* or emptied by resize(v, 0), return VECTOR_ERROR_SIZE or VECTOR_ERROR_MATH
\* and do not write the output scalar.
C16_EmptyReduction ==
    [][ (op'.name \in {"min", "max", "mean"} /\ vec[op'.v].size = 0) =>
            (ret' \in {VECTOR_ERROR_SIZE, VECTOR_ERROR_MATH} /\ out' = Indet)
    ]_vars

\* C20: unless an allocation fails, create_zero(n, &out) returns success for
\* every n, 0 included, and stores in out a new vector with size = capacity
\* = n whose elements are all zero.
C20_CreateZero ==
    [][ (op'.name = "create_zero" /\ ~oom') =>
            /\ ret' = VECTOR_SUCCESS
            /\ ~vec[op'.v].alive /\ vec'[op'.v].alive
            /\ vec'[op'.v].size = op'.n /\ vec'[op'.v].capacity = op'.n
            /\ \A i \in 0..(op'.n - 1) : Load(heap', vec'[op'.v].elements, i) = Zero
    ]_vars

---------------------------------------------------------------------------
(* Properties of the cross product (specification SpecCross) *)

\* element i of vector v in the current state
El(v, i) == Load(heap, vec[v].elements, i)

\* the right-handed product of the vectors a and b of the current state
CrossOf(a, b) ==
    <<RSub(RMul(El(a, 1), El(b, 2)), RMul(El(a, 2), El(b, 1))),
      RSub(RMul(El(a, 2), El(b, 0)), RMul(El(a, 0), El(b, 2))),
      RSub(RMul(El(a, 0), El(b, 1)), RMul(El(a, 1), El(b, 0)))>>

\* C17: cross(a, b, result) returns VECTOR_ERROR_SIZE and leaves result
\* unchanged unless a, b and result all have size 3; with all three of size
\* 3 and result a vector of its own, it succeeds and writes the right-handed
\* product of the pre-call a and b, which is (0, 0, 0) when b is a.
C17_CrossProduct ==
    [][ op'.name = "cross" =>
          IF \E x \in ArgsOf(op') : vec[x].size # 3
          THEN ret' = VECTOR_ERROR_SIZE /\ vec' = vec /\ heap' = heap
          ELSE op'.v \notin {op'.w, op'.u} =>
                 /\ ret' = VECTOR_SUCCESS
                 /\ vec' = vec
                 /\ \A i \in 0..2 :
                        Load(heap', vec[op'.v].elements, i) = CrossOf(op'.w, op'.u)[i + 1]
                 /\ op'.w = op'.u =>
                        \A i \in 0..2 : Load(heap', vec[op'.v].elements, i) = Zero
    ]_vars

---------------------------------------------------------------------------
(* Properties of normalization, projection, rejection and reflection        *)
(* (specification SpecGeom)                                                  *)

\* every element of the vector v is 0, so its magnitude is exactly 0
AllZero(v) == \A i \in 0..(vec[v].size - 1) : El(v, i) = Zero

\* C18: normalize(v) of a valid v of magnitude exactly 0, and project,
\* reject and reflect of valid vectors of one size against an all-zero b,
\* return VECTOR_ERROR_MATH (reject and reflect thereby return the code of
\* their inner project) and leave every element of v, respectively of
\* result, as it was.  A reflect whose scratch allocation fails is left out.
C18_DegenerateRejected ==
    [][ /\ (op'.name = "normalize" /\ ValidVector(vec[op'.v]) /\ AllZero(op'.v)) =>
              (ret' = VECTOR_ERROR_MATH /\ vec' = vec /\ heap' = heap)
        /\ (/\ op'.name \in {"project", "reject", "reflect"}
            /\ \A x \in ArgsOf(op') : ValidVector(vec[x])
            /\ SameSizes(op')
            /\ AllZero(op'.u)
            /\ ~oom') =>
              (ret' = VECTOR_ERROR_MATH /\ vec' = vec /\ heap' = heap)
    ]_vars

---------------------------------------------------------------------------
(* Properties of a growth run (specification SpecGrow) *)

\* the least k with 2^k >= n, for n >= 1
RECURSIVE CeilLog2(_)
CeilLog2(n) == IF n <= 1 THEN 0 ELSE 1 + CeilLog2((n + 1) \div 2)

\* C19: in a growth run from create(0) by resize(v, 1), resize(v, 2), ...,
\* every reallocation after the first at least doubles the capacity, and
\* the reallocations made to reach size N number at most ceil(log2(N)) + 1
\* (none for N = 0).
C19_GrowthAmortized ==
    [][ /\ (op'.name = "resize" /\ ret' = VECTOR_SUCCESS
              /\ op'.n > op'.cap0 /\ op'.cap0 > 0) =>
              vec'[op'.v].capacity >= 2 * op'.cap0
        /\ reallocs' <= (IF vec'[1].size = 0 THEN 0 ELSE CeilLog2(vec'[1].size) + 1)
    ]_vars

\* the run has reached size 35 with its third reallocation
C19_Witness ==
    /\ Succeeded("resize") /\ op.n = 35 /\ vec[1].size = 35
    /\ reallocs = 3 /\ vec[1].capacity = 70

---------------------------------------------------------------------------
(* Properties of the dot product (specification SpecDot) *)

\* a[0]*b[0] + ... + a[n-1]*b[n-1] over the vectors a and b of the current
\* state, every index once
RECURSIVE DotOf(_, _, _)
DotOf(a, b, n) ==
    IF n = 0 THEN Zero
    ELSE RAdd(DotOf(a, b, n - 1), RMul(El(a, n - 1), El(b, n - 1)))

\* C21: for valid a and b, dot(a, b) returns VECTOR_ERROR_SIZE and writes no
\* output when the sizes differ, and otherwise succeeds and writes the sum
\* of a[i]*b[i] over every index i below the size, each once, for every
\* size from 0 on; on integer elements that is the exact sum.
C21_DotProduct ==
    [][ (op'.name = "dot" /\ ValidVector(vec[op'.v]) /\ ValidVector(vec[op'.w])) =>
          IF vec[op'.v].size # vec[op'.w].size
          THEN ret' = VECTOR_ERROR_SIZE /\ out' = Indet
          ELSE ret' = VECTOR_SUCCESS /\ out' = DotOf(op'.v, op'.w, vec[op'.v].size)
    ]_vars

---------------------------------------------------------------------------
(* Properties of reflection (specification SpecReflect) *)

\* element i of a - 2 * (a.b / b.b) * b over the vectors a and b of the
\* current state, both of size n
ReflectOfAt(a, b, n, i) ==
    RSub(El(a, i),
         RMul(RMul(Rat(2), RDiv(DotOf(a, b, n), DotOf(b, b, n))), El(b, i)))

\* C22: for valid a, b and result of one size with b not all zero, a
\* reflect(a, b, result) whose scratch allocation succeeds returns success
\* and leaves result[i] = a[i] - 2 * (dot(a,b) / dot(b,b)) * b[i] of the
\* pre-call a and b, also when result is a or is b; no size, capacity or
\* buffer address changes, and a and b keep their elements when result is a
\* third vector.
C22_Reflect ==
    [][ (/\ op'.name = "reflect"
         /\ \A x \in ArgsOf(op') : ValidVector(vec[x])
         /\ SameSizes(op')
         /\ ~AllZero(op'.u)
         /\ ~oom') =>
          /\ ret' = VECTOR_SUCCESS
          /\ vec' = vec
          /\ \A i \in 0..(vec[op'.v].size - 1) :
                 Load(heap', vec[op'.v].elements, i) =
                     ReflectOfAt(op'.w, op'.u, vec[op'.v].size, i)
          /\ op'.v \notin {op'.w, op'.u} =>
                 /\ heap'[vec[op'.w].elements] = heap[vec[op'.w].elements]
                 /\ heap'[vec[op'.u].elements] = heap[vec[op'.u].elements]
    ]_vars

\* reflect([1,-1], [0,1]) written over its own operand a, which now holds
\* [1,1]
C22_Witness ==
    /\ Succeeded("reflect") /\ op.v = op.w /\ op.v # op.u
    /\ DataOf(heap, vec[op.u]) = <<Zero, Rat(1)>>
    /\ DataOf(heap, vec[op.v]) = <<Rat(1), Rat(1)>>

\* reflect([1,-1], [0,1]) = [1,1] in a third vector
C22_WitnessDistinct ==
    /\ Succeeded("reflect") /\ op.v \notin {op.w, op.u}
    /\ DataOf(heap, vec[op.w]) = <<Rat(1), Rat(-1)>>
    /\ DataOf(heap, vec[op.u]) = <<Zero, Rat(1)>>
    /\ DataOf(heap, vec[op.v]) = <<Rat(1), Rat(1)>>

---------------------------------------------------------------------------
(* Properties of the factorial dispatcher (specification SpecFact) *)

\* the integers the table covers, as double_t arguments
InTable(n) == n[2] = 1 /\ n[1] >= 0 /\ n[1] <= MAX_FACTORIAL_INPUT

\* an integer argument outside the table
OutsideTable(n) == n[2] = 1 /\ (n[1] < 0 \/ n[1] > MAX_FACTORIAL_INPUT)

\* no FLAG_FORCE_* bit is set
Automatic(flags) ==
    /\ ~HasFlag(flags, FLAG_FORCE_LOOKUP)
    /\ ~HasFlag(flags, FLAG_FORCE_GAMMA)
    /\ ~HasFlag(flags, FLAG_FORCE_STIRLING)

\* C23: for every integer n in 0..20, factorial(n) with no force flag
\* returns true and stores exactly FACTORIAL_LUT[n]; the table starts with
\* 0! = 1 and has FACTORIAL_LUT[n] = n * FACTORIAL_LUT[n-1], so 0! = 1! = 1.
C23_TableExact ==
    [][ (op'.name = "factorial" /\ InTable(op'.x) /\ Automatic(op'.n)) =>
          /\ ret' = true
          /\ out' = Lut(op'.x[1])
          /\ Lut(0) = <<1>> /\ Lut(1) = <<1>>
          /\ \A k \in 1..MAX_FACTORIAL_INPUT : Lut(k) = MulAdd(Lut(k - 1), k, 0)
    ]_vars

\* factorial(20) in automatic mode has stored 20! = 2432902008176640000
C23_Witness ==
    /\ op.name = "factorial" /\ op.x = Rat(20) /\ op.n = 0 /\ ret = true
    /\ out = <<0, 640, 176, 8, 902, 432, 2>>

\* C24: for every integer argument outside 0..20 and every flags value,
\* factorial returns false; and whenever factorial returns false, the
\* caller's result variable holds what it held before the call.
C24_RejectsOutsideTable ==
    [][ /\ (op'.name = "factorial" /\ OutsideTable(op'.x)) => ret' = false
        /\ (op'.name = "factorial" /\ ret' = false) => out' = out
    ]_vars

---------------------------------------------------------------------------
(* Properties of cross, project, reject and lerp on a result that is one of  *)
(* the operands (specification SpecAlias)                                    *)

\* element i of what call c defines from the operands a = c.w and b = c.u of
\* the current state, which is what a result vector of its own receives
DefinedAt(c, i) ==
    LET n     == vec[c.w].size
        scale == RDiv(DotOf(c.w, c.u, n), DotOf(c.u, c.u, n))
    IN  CASE c.name = "cross"   -> CrossOf(c.w, c.u)[i + 1]
          [] c.name = "project" -> RMul(scale, El(c.u, i))
          [] c.name = "reject"  -> RSub(El(c.w, i), RMul(scale, El(c.u, i)))
          [] c.name = "lerp"    -> RAdd(RMul(RSub(Rat(1), c.x), El(c.w, i)),
                                        RMul(c.x, El(c.u, i)))

\* C25: a successful cross, project, reject or lerp whose result is operand
\* a or operand b leaves in result the values defined by the pre-call
\* elements of the operands, the same as with a result vector of its own.
C25_AliasedGeometry ==
    [][ (/\ op'.name \in {"cross", "project", "reject", "lerp"}
         /\ ret' = VECTOR_SUCCESS) =>
          \A i \in 0..(vec[op'.v].size - 1) :
              Load(heap', vec[op'.v].elements, i) = DefinedAt(op', i)
    ]_vars

---------------------------------------------------------------------------
(* Properties of copy on its source (specification SpecPair) *)

\* C26: a successful copy(src, dest) leaves the size, the capacity and the
\* elements of src as they were and leaves in dest the pre-call elements of
\* src, in a buffer that is not the buffer of src unless dest is src; this
\* for every dest, dest = src included.
C26_CopyKeepsSource ==
    [][ (op'.name = "copy" /\ ret' = VECTOR_SUCCESS) =>
          /\ vec'[op'.w].size = vec[op'.w].size
          /\ vec'[op'.w].capacity = vec[op'.w].capacity
          /\ \A i \in 0..(vec[op'.w].size - 1) :
                 /\ Load(heap', vec'[op'.w].elements, i) = Load(heap, vec[op'.w].elements, i)
                 /\ Load(heap', vec'[op'.v].elements, i) = Load(heap, vec[op'.w].elements, i)
          /\ (op'.v # op'.w /\ vec[op'.w].size > 0) =>
                 vec'[op'.v].elements # vec'[op'.w].elements
    ]_vars

---------------------------------------------------------------------------
(* Properties of resize and reserve over the range of size_t (specification  *)
(* SpecWrap)                                                                 *)

\* C27: for every requested size or capacity in the range of size_t, a
\* successful resize or reserve leaves a buffer that really holds at least
\* capacity elements, and capacity >= size: no product wraps modulo
\* 2^SizeBits on its way to realloc or memset.
C27_NoWrap ==
    [][ (op'.name \in {"resize", "reserve"} /\ ret' = VECTOR_SUCCESS) =>
          /\ Len(DataOf(heap', vec'[op'.v])) >= vec'[op'.v].capacity
          /\ vec'[op'.v].capacity >= vec'[op'.v].size
    ]_vars

====
